---- MODULE Spec2Model ----
(***************************************************************************)
(* Event bridge of the gate camera (deploy/event_bridge/app.py): the       *)
(* crossing detector, the counting engine with its exit-leniency pool and  *)
(* driver attribution, and the view-mode (PTZ) controller with its idle    *)
(* loop.                                                                   *)
(*                                                                         *)
(* Time.  Every timestamp column (last_seen_utc, started_at_utc, ts_utc,   *)
(* last_view_utc) is kept as its age, now - timestamp, in seconds.  Tick   *)
(* advances all ages together.  An age is only ever compared with one      *)
(* threshold, so it saturates one second above that threshold.             *)
(***************************************************************************)
EXTENDS Integers, Sequences, FiniteSets, Bags, TLC

-----------------------------------------------------------------------------
(* Program constants (module level assignments of app.py).                 *)

LEFT_EXIT_WINDOW_SECONDS == 30
LEFT_EXIT_MAX_EXTRA_PEOPLE == 4
MAX_ACTIVE_VEHICLE_EXIT_SESSIONS == 2
VIRTUAL_GATE_LINE_X == 320
INSIDE_SIDE == "right"
GATE_DEBOUNCE_UPDATES == 2
TRACK_TTL_SECONDS == 300
DEDUPE_SECONDS == 15
PTZ_AUTO_RETURN_SECONDS == 300
CHECK_INTERVAL_SECONDS == 10
ALERT_COOLDOWN_SECONDS == 900

\* TripwireTracker: the defaults of its constructor, and the line of its tests
cooldown_secs == 3
stale_secs == 30
line_y == 100

-----------------------------------------------------------------------------
(* Bounds of the exploration.                                              *)

\* largest value a counter is driven to by IN events
MaxCount == 2
\* longest debounce streak an event may produce
MaxStreak == 2
\* rows ever inserted into vehicle_sessions
MaxVehicleSessions == 1
\* open person_sessions rows of one person key
MaxOpenPersonSessions == 1
MaxBuffer == 2

-----------------------------------------------------------------------------
(* Values.                                                                 *)

NULL == "NULL"

Max0_unclamped(n) == n

Max0(n) == IF n > 0 THEN n ELSE 0

Sat(n, cap) == IF n > cap THEN cap ELSE n

\* Track keys camera:label:id that the environment sends repeatedly.
TrackKeys == {"cam1:person:1", "cam1:car:2"}

\* A key camera:label:id whose id was never used before and is never used
\* again: its object_tracks row is written but no later event reads it.
FreshKeys == {"cam1:person:*", "cam1:car:*"}

\* The key of a payload that carries no id and no event_id.
NoId == "cam1:person:"

LabelOf(k) ==
    IF k \in {"cam1:person:1", "cam1:person:*", "cam1:person:"} THEN "person" ELSE "car"

OCR_MOTION_TRIGGER_LABELS == {"person", "car", "truck", "motorcycle", "bicycle"}

CommandTopics == {"shed/cmd/ptz_panorama", "shed/cmd/ptz_gate", "shed/cmd/ocr_enabled",
                  "shed/cmd/view_heartbeat"}

CommandPayloads == {"on", "off"}

GateTopics == {"shed/cmd/gate_open", "shed/cmd/gate_closed"}

\* box = [x, y, width, height]; <<>> is a missing or short box
\* a box entry that float() rejects
NotNumber == -1000000

\* no box, a box of fewer than four entries, one with entries that are not
\* numbers, and boxes [x, y, width, height] left of, across and right of the line
Boxes == {<<>>, <<100, 50>>, <<NotNumber, 50, NotNumber, 80>>,
          <<100, 50, 40, 80>>, <<300, 50, 40, 80>>, <<500, 50, 40, 80>>}

\* plate texts as the detector sends them, one character per element
Plates == {<<>>, <<"a", "-", "1">>, <<"A", "1">>}

\* Events without a direction token: the side comes from the box.
BoxPayloads == [direction : {NULL}, after_direction : {NULL}, box : Boxes, plate : {<<>>}]

\* Events with an authoritative direction token.
TokenPayloads ==
    [direction : {"in", "out"}, after_direction : {NULL}, box : {<<>>}, plate : {<<>>}]

\* Events with a direction token and a box on the outside of the line.
TokenBoxPayloads ==
    [direction : {"in", "out"}, after_direction : {NULL}, box : {<<100, 50, 40, 80>>},
     plate : {<<>>}]

\* Events whose direction token is under after, without and with a box on
\* the outside of the line.
AfterTokenPayloads ==
    [direction : {NULL}, after_direction : {"in", "out"}, box : {<<>>, <<100, 50, 40, 80>>},
     plate : {<<>>}]

\* Token events of vehicles that carry a plate text.
PlatePayloads ==
    [direction : {"in", "out"}, after_direction : {NULL}, box : {<<>>}, plate : Plates]

\* n_in and n_out are history: how often the row's track changed a counter
\* for IN and for OUT since the row was inserted.
NoRow == [present |-> FALSE, last_side |-> NULL, counted_in |-> 0, counted_out |-> 0,
          age |-> 0, n_in |-> 0, n_out |-> 0]

\* last_view_utc IS NULL
NoView == -1

NoStreak == [side |-> "", n |-> 0]

VARIABLES
    people_count,           \* counters_state.people_count
    vehicle_count,          \* counters_state.vehicle_count
    object_tracks,          \* object_tracks rows of TrackKeys
    side_streaks,           \* the in-memory dict side_streaks
    vehicle_exit_sessions,  \* vehicle_exit_sessions rows, ordered by started_at_utc
    vehicle_sessions,       \* vehicle_sessions rows, index = id
    person_sessions,        \* open person_sessions rows per person key
    driver_attribution,     \* driver_attribution rows not older than DEDUPE_SECONDS
    counter_events,         \* counter_events rows written by the latest step
    ptz_state,              \* the ptz_state singleton
    ptz_events,             \* ptz_events rows written by the latest step
    pending_plates,         \* pending_plates rows inserted by the latest message
    loop,                   \* auto_return_loop: where the thread is, and the state it read
    gate_closed,            \* gate_state.gate_closed
    alert_last,             \* age of alerts.last_sent_utc of the alert key, or NoView
    gate_alert_events,      \* gate alert rows written by the latest step
    delivered,              \* history: age of the latest delivered alert, and how many
    tw_buffer,              \* TripwireTracker._buffer, 0 before the tracker is constructed
    tw_positions,           \* TripwireTracker._positions: obj_id -> observations, True = below
    tw_confirmed_side,      \* TripwireTracker._confirmed_side: <<>> is None, else <<side>>
    tw_last_fire,           \* TripwireTracker._last_fire, as the age of the time stored
    tw_last_seen,           \* TripwireTracker._last_seen, as the age of the time stored
    tw_now,                 \* time.monotonic(), saturating at cooldown_secs
    tw_step,                \* the latest tracker call and what it returned
    tw_obs,                 \* history: an object's observations since it was first seen
    tw_results,             \* history: what update returned for each of them
    tw_event_age,           \* history: age of the latest event returned for an object
    tw_last_event,          \* history: that event, and the opposite observations since
    tw_still,               \* history: the clock has not advanced while an object was tracked
    door_state,             \* the module variable door_state
    door_published,         \* what control_door published last on shed/state/door, or NULL
    heartbeat,              \* history: age of the latest heartbeat in wide-view, or of the entry
    watch,                  \* history: "quiet" from a successful panorama command on,
                            \*   episode tells one such command from the next
    step,                   \* history: what the latest step did
    run,                    \* history: the box observations of a new track key
    trail                   \* history: person OUTs counted since the latest vehicle OUT

vars == <<people_count, vehicle_count, object_tracks, side_streaks,
          vehicle_exit_sessions, vehicle_sessions, person_sessions,
          driver_attribution, counter_events, ptz_state, ptz_events, pending_plates,
          loop, gate_closed, alert_last, gate_alert_events, delivered,
          tw_buffer, tw_positions, tw_confirmed_side, tw_last_fire, tw_last_seen, tw_now,
          tw_step, tw_obs, tw_results, tw_event_age, tw_last_event, tw_still,
          door_state, door_published,
          heartbeat, watch, step, run, trail>>

alertVars == <<gate_closed, alert_last, gate_alert_events, delivered>>

twVars == <<tw_buffer, tw_positions, tw_confirmed_side, tw_last_fire, tw_last_seen, tw_now,
            tw_step, tw_obs, tw_results, tw_event_age, tw_last_event, tw_still>>

countVars == <<people_count, vehicle_count, object_tracks, side_streaks,
               vehicle_exit_sessions, vehicle_sessions, person_sessions,
               driver_attribution, counter_events, run, trail>>

doorVars == <<door_state, door_published>>

\* everything the event bridge keeps
bridgeVars == <<countVars, alertVars, doorVars, ptz_state, ptz_events, pending_plates, loop, heartbeat,
                watch, step>>

-----------------------------------------------------------------------------
(* Track store.                                                            *)

get_track(tracks, k) == IF k \in DOMAIN tracks THEN tracks[k] ELSE NoRow

\* INSERT ... ON CONFLICT(track_key) DO UPDATE SET label, last_seen_utc, last_side
upsert_track(row, last_side) ==
    IF row.present
    THEN [row EXCEPT !.last_side = last_side, !.age = 0]
    ELSE [present |-> TRUE, last_side |-> last_side, counted_in |-> 0, counted_out |-> 0,
          age |-> 0, n_in |-> 0, n_out |-> 0]

\* UPDATE object_tracks SET last_seen_utc, last_side WHERE track_key = ?
update_track_side(row, last_side) ==
    IF row.present THEN [row EXCEPT !.last_side = last_side, !.age = 0] ELSE row

mark_track_counted_skip(row, direction) == row

mark_track_counted(row, direction) ==
    IF direction \notin {"in", "out"} \/ ~row.present THEN row
    ELSE IF direction = "in"
         THEN [row EXCEPT !.counted_in = 1, !.age = 0]
         ELSE [row EXCEPT !.counted_out = 1, !.age = 0]

\* DELETE FROM object_tracks WHERE last_seen_utc < now - TRACK_TTL_SECONDS
cleanup_tracks(tracks) ==
    [k \in DOMAIN tracks |->
        IF tracks[k].present /\ tracks[k].age > TRACK_TTL_SECONDS THEN NoRow ELSE tracks[k]]

-----------------------------------------------------------------------------
(* Crossing detector.                                                      *)

\* center_x = x + width / 2.0 < VIRTUAL_GATE_LINE_X, without fractions
BoxSide(box) ==
    IF 2 * box[1] + box[3] < 2 * VIRTUAL_GATE_LINE_X THEN "left" ELSE "right"

direction_token_top(payload) ==
    IF payload.direction \in {"in", "out"} THEN payload.direction ELSE NULL

\* payload.direction, or else after.direction, if it is "in" or "out"
direction_token(payload) ==
    IF payload.direction \in {"in", "out"} THEN payload.direction
    ELSE IF payload.after_direction \in {"in", "out"} THEN payload.after_direction
    ELSE NULL

\* The result tuple (direction, source, side) together with the track row
\* and the streak entry as infer_direction leaves them.
infer_direction(payload, row, streak) ==
    IF direction_token(payload) # NULL
    THEN [direction |-> direction_token(payload), source |-> "frigate", side |-> NULL,
          row |-> row, streak |-> streak]
    ELSE IF Len(payload.box) < 4 \/ payload.box[1] = NotNumber \/ payload.box[3] = NotNumber
    THEN [direction |-> NULL, source |-> "none", side |-> NULL,
          row |-> row, streak |-> streak]
    ELSE
      LET side == BoxSide(payload.box)
          last_side == IF row.present THEN row.last_side ELSE NULL
          n == IF streak.side = side THEN streak.n + 1 ELSE 1
          newStreak == [side |-> side, n |-> n]
      IN  IF last_side = NULL
          THEN [direction |-> NULL, source |-> "virtual", side |-> side,
                row |-> IF n >= GATE_DEBOUNCE_UPDATES
                        THEN update_track_side(row, side) ELSE row,
                streak |-> newStreak]
          ELSE IF last_side = side
          THEN [direction |-> NULL, source |-> "virtual", side |-> side,
                row |-> row, streak |-> newStreak]
          ELSE IF n < GATE_DEBOUNCE_UPDATES
          THEN [direction |-> NULL, source |-> "virtual", side |-> side,
                row |-> row, streak |-> newStreak]
          ELSE [direction |->
                    IF last_side = INSIDE_SIDE /\ side # INSIDE_SIDE THEN "out"
                    ELSE IF last_side # INSIDE_SIDE /\ side = INSIDE_SIDE THEN "in"
                    ELSE NULL,
                source |-> "virtual", side |-> side,
                row |-> update_track_side(row, side), streak |-> newStreak]

-----------------------------------------------------------------------------
(* Exit-leniency pool.                                                     *)

ActiveSessions(S) == {i \in DOMAIN S : S[i].active = 1}

IsActive(r) == r.active = 1

\* The model keeps the active sessions and the sessions closed by the latest
\* step; older closed rows are left out, every query selects active = 1.
OpenRows(S) == SelectSeq(S, IsActive)

Deactivate(S, I) == [i \in DOMAIN S |-> IF i \in I THEN [S[i] EXCEPT !.active = 0] ELSE S[i]]

\* UPDATE ... SET active = 0 WHERE active = 1 AND started_at_utc < now - window
close_expired_sessions(S) ==
    Deactivate(S, {i \in ActiveSessions(S) : S[i].age > LEFT_EXIT_WINDOW_SECONDS})

enforce_session_limit_newest(S) ==
    LET rows == ActiveSessions(S)
        excess == Cardinality(rows) - MAX_ACTIVE_VEHICLE_EXIT_SESSIONS
    IN  IF Cardinality(rows) > MAX_ACTIVE_VEHICLE_EXIT_SESSIONS
        THEN Deactivate(S, {i \in rows : Cardinality({j \in rows : j > i}) < excess})
        ELSE S

\* rows = active sessions ORDER BY started_at_utc ASC; close rows[: len - MAX]
enforce_session_limit(S) ==
    LET rows == ActiveSessions(S)
        excess == Cardinality(rows) - MAX_ACTIVE_VEHICLE_EXIT_SESSIONS
    IN  IF Cardinality(rows) > MAX_ACTIVE_VEHICLE_EXIT_SESSIONS
        THEN Deactivate(S, {i \in rows : Cardinality({j \in rows : j < i}) < excess})
        ELSE S

create_vehicle_exit_session_more(S) ==
    Append(S, [active |-> 1, age |-> 0, left_person_decrements |-> 0,
               max_left_person_decrements |-> LEFT_EXIT_MAX_EXTRA_PEOPLE + 1])

create_vehicle_exit_session(S) ==
    Append(S, [active |-> 1, age |-> 0, left_person_decrements |-> 0,
               max_left_person_decrements |-> LEFT_EXIT_MAX_EXTRA_PEOPLE])

apply_left_exit_decrement_unchecked(S) ==
    LET rows == ActiveSessions(S)
    IN  IF rows = {} THEN [applied |-> FALSE, sessions |-> S]
        ELSE
          LET i == CHOOSE j \in rows : \A m \in rows : m <= j
          IN  IF S[i].age > LEFT_EXIT_WINDOW_SECONDS
              THEN [applied |-> FALSE, sessions |-> Deactivate(S, {i})]
              ELSE [applied |-> TRUE,
                    sessions |-> [S EXCEPT ![i].left_person_decrements = @ + 1]]

apply_left_exit_decrement_keep(S) ==
    LET rows == ActiveSessions(S)
    IN  IF rows = {} THEN [applied |-> FALSE, sessions |-> S]
        ELSE
          LET i == CHOOSE j \in rows : \A m \in rows : m <= j
          IN  IF S[i].age > LEFT_EXIT_WINDOW_SECONDS
              THEN [applied |-> FALSE, sessions |-> Deactivate(S, {i})]
              ELSE IF S[i].left_person_decrements >= S[i].max_left_person_decrements
              THEN [applied |-> FALSE, sessions |-> S]
              ELSE [applied |-> TRUE,
                    sessions |-> [S EXCEPT ![i].left_person_decrements = @ + 1]]

apply_left_exit_decrement_oldest(S) ==
    LET rows == ActiveSessions(S)
    IN  IF rows = {} THEN [applied |-> FALSE, sessions |-> S]
        ELSE
          LET i == CHOOSE j \in rows : \A m \in rows : j <= m
          IN  IF S[i].age > LEFT_EXIT_WINDOW_SECONDS
              THEN [applied |-> FALSE, sessions |-> Deactivate(S, {i})]
              ELSE IF S[i].left_person_decrements >= S[i].max_left_person_decrements
              THEN [applied |-> FALSE, sessions |-> Deactivate(S, {i})]
              ELSE [applied |-> TRUE,
                    sessions |-> [S EXCEPT ![i].left_person_decrements = @ + 1]]

\* The row read is the first of the active sessions ORDER BY started_at_utc DESC.
apply_left_exit_decrement(S) ==
    LET rows == ActiveSessions(S)
    IN  IF rows = {} THEN [applied |-> FALSE, sessions |-> S]
        ELSE
          LET i == CHOOSE j \in rows : \A m \in rows : m <= j
          IN  IF S[i].age > LEFT_EXIT_WINDOW_SECONDS
              THEN [applied |-> FALSE, sessions |-> Deactivate(S, {i})]
              ELSE IF S[i].left_person_decrements >= S[i].max_left_person_decrements
              THEN [applied |-> FALSE, sessions |-> Deactivate(S, {i})]
              ELSE [applied |-> TRUE,
                    sessions |-> [S EXCEPT ![i].left_person_decrements = @ + 1]]

active_session_count(S) == Cardinality(ActiveSessions(S))

-----------------------------------------------------------------------------
(* Plates, presence sessions and driver attribution.                       *)

Upper(c) == IF c = "a" THEN "A" ELSE c

IsAlnum(c) == c \in {"A", "1"}

\* re.sub(r"[^A-Z0-9]", "", text.upper())
normalize_plate(text) ==
    SelectSeq([i \in DOMAIN text |-> Upper(text[i])], IsAlnum)

extract_plate(payload) == payload.plate

\* lastrowid of the inserted row
open_vehicle_session(V, vehicle_key, plate_norm) ==
    Append(V, [vehicle_key |-> vehicle_key, plate_norm |-> plate_norm, open |-> TRUE])

\* id of the latest open session of the plate, or else of the key; 0 if none.
\* A key with a fresh id matches no stored key.
FindOpenVehicleSession(V, vehicle_key, plate_norm) ==
    LET rows == {i \in DOMAIN V :
                    /\ V[i].open
                    /\ IF plate_norm # <<>>
                       THEN V[i].plate_norm = plate_norm
                       ELSE V[i].vehicle_key = vehicle_key /\ vehicle_key \in TrackKeys}
    IN  IF rows = {} THEN 0 ELSE CHOOSE j \in rows : \A m \in rows : m <= j

close_vehicle_session(V, vehicle_key, plate_norm) ==
    LET id == FindOpenVehicleSession(V, vehicle_key, plate_norm)
    IN  IF id = 0 THEN V ELSE [V EXCEPT ![id].open = FALSE]

resolve_vehicle_identity(plate_norm, session_id) ==
    IF plate_norm # <<>>
    THEN [name |-> "plate", plate |-> plate_norm, id |-> 0]
    ELSE IF session_id # 0
    THEN [name |-> "unknown_vehicle_", plate |-> <<>>, id |-> session_id]
    ELSE [name |-> "unknown_vehicle", plate |-> <<>>, id |-> 0]

get_person_identity_for_session == "unknown_person"

insert_driver_attribution_strict(A, direction, person_identity, vehicle_identity) ==
    IF \E r \in BagToSet(A) :
          /\ r.person_identity = person_identity
          /\ r.vehicle_identity = vehicle_identity
          /\ r.direction = direction
          /\ r.age < DEDUPE_SECONDS
    THEN A
    ELSE A (+) SetToBag({[direction |-> direction, person_identity |-> person_identity,
                          vehicle_identity |-> vehicle_identity, age |-> 0]})

\* SELECT id WHERE person = ? AND vehicle = ? AND direction = ? AND ts_utc >= cutoff
\* The table is a bag of rows.
insert_driver_attribution(A, direction, person_identity, vehicle_identity) ==
    IF \E r \in BagToSet(A) :
          /\ r.person_identity = person_identity
          /\ r.vehicle_identity = vehicle_identity
          /\ r.direction = direction
          /\ r.age <= DEDUPE_SECONDS
    THEN A
    ELSE A (+) SetToBag({[direction |-> direction, person_identity |-> person_identity,
                          vehicle_identity |-> vehicle_identity, age |-> 0]})

open_person_session(P, person_key) ==
    IF person_key \in DOMAIN P THEN [P EXCEPT ![person_key] = @ + 1] ELSE P

close_person_session(P, person_key) ==
    IF person_key \in DOMAIN P /\ P[person_key] > 0
    THEN [P EXCEPT ![person_key] = @ - 1] ELSE P

log_counter_event_once(E, label, direction, delta, new_count, note) ==
    IF E # <<>> THEN E
    ELSE Append(E, [label |-> label, direction |-> direction, delta |-> delta,
                    new_count |-> new_count, note |-> note])

\* INSERT INTO counter_events
log_counter_event(E, label, direction, delta, new_count, note) ==
    Append(E, [label |-> label, direction |-> direction, delta |-> delta,
               new_count |-> new_count, note |-> note])

-----------------------------------------------------------------------------
(* Initial state: init_db with ensure_counters_state and ensure_ptz_state.  *)

PersonKeys == {k \in TrackKeys : LabelOf(k) = "person"}

NoStep == [op |-> "init", key |-> "", source |-> "none", direction |-> NULL,
           counted |-> NULL, applied_left |-> FALSE, floored |-> FALSE,
           deduped |-> FALSE, moved |-> NULL, type |-> NULL, plate |-> <<>>,
           token |-> NULL, after_token |-> NULL,
           attempted |-> FALSE, notified |-> "none", read_ok |-> TRUE]

NoRun == [key |-> "", sides |-> <<>>, fired |-> 0, added |-> 0]

NoTrail == [n |-> -1, age |-> 0]

NoWatch == [s |-> "off", episode |-> 0]

EmptyDict == [o \in {} |-> 0]

NoTwStep == [op |-> "init", obj_id |-> 0, below |-> FALSE, result |-> "None",
             by_ids |-> FALSE, active_ids |-> {}, removed |-> {}]

Init ==
    /\ people_count = 0
    /\ vehicle_count = 0
    /\ object_tracks = [k \in TrackKeys |-> NoRow]
    /\ side_streaks = [k \in TrackKeys |-> NoStreak]
    /\ vehicle_exit_sessions = <<>>
    /\ vehicle_sessions = <<>>
    /\ person_sessions = [k \in PersonKeys |-> 0]
    /\ driver_attribution = EmptyBag
    /\ counter_events = <<>>
    /\ ptz_state = [mode |-> "gate", ocr_enabled |-> 1, last_view |-> NoView]
    /\ ptz_events = <<>>
    /\ pending_plates = <<>>
    /\ loop = [pc |-> "read", mode |-> "gate", ocr_enabled |-> 1]
    /\ gate_closed = 0
    /\ alert_last = NoView
    /\ gate_alert_events = <<>>
    /\ delivered = [age |-> NoView, n |-> 0]
    /\ tw_buffer = 0
    /\ tw_positions = EmptyDict
    /\ tw_confirmed_side = EmptyDict
    /\ tw_last_fire = EmptyDict
    /\ tw_last_seen = EmptyDict
    /\ tw_now = 0
    /\ tw_step = NoTwStep
    /\ tw_obs = EmptyDict
    /\ tw_results = EmptyDict
    /\ tw_event_age = EmptyDict
    /\ tw_last_event = EmptyDict
    /\ tw_still = TRUE
    /\ door_state = "closed"
    /\ door_published = NULL
    /\ heartbeat = NoView
    /\ watch = NoWatch
    /\ step = NoStep
    /\ run = NoRun
    /\ trail = NoTrail

-----------------------------------------------------------------------------
(* Counting engine: handle_counting(payload) for the track key k.          *)

get_streak(streaks, k) == IF k \in DOMAIN streaks THEN streaks[k] ELSE NoStreak

\* The observations of a track key from its first event on, as long as every
\* event of the key is a box event without direction token and no time passes.
NextRun(k, payload, isNew, side, countIn, added) ==
    LET isBox == payload.direction = NULL /\ Len(payload.box) >= 4
        fired == IF countIn THEN 1 ELSE 0
    IN  IF isBox /\ isNew
        THEN [key |-> k, sides |-> <<side>>, fired |-> fired, added |-> added]
        ELSE IF isBox /\ run.key = k /\ Len(run.sides) < 2 * GATE_DEBOUNCE_UPDATES
        THEN [key |-> k, sides |-> Append(run.sides, side),
              fired |-> run.fired + fired, added |-> run.added + added]
        ELSE NoRun

\* n counts the person OUTs counted since the latest counted vehicle OUT, as
\* long as that vehicle OUT is no more than the leniency window ago.
NextTrail(countOut, person) ==
    IF countOut /\ ~person THEN [n |-> 0, age |-> 0]
    ELSE IF countOut /\ trail.n >= 0 /\ trail.n <= LEFT_EXIT_MAX_EXTRA_PEOPLE
    THEN [trail EXCEPT !.n = @ + 1]
    ELSE IF countOut THEN NoTrail
    ELSE trail

\* get_counters: the row of counters_state, or (0, 0) when the read fails
get_counters(read_ok) ==
    IF read_ok THEN <<people_count, vehicle_count>> ELSE <<0, 0>>

\* handle_counting from get_track_key on.  read_ok tells whether the SELECT
\* of get_counters succeeds, which depends on the store.
CountingStep(type, k, payload, ocr_enabled, read_ok) ==
    LET label == LabelOf(k)
        people0 == get_counters(read_ok)[1]
        vehicle0 == get_counters(read_ok)[2]
        tracks1 == cleanup_tracks(object_tracks)
        sessions1 == enforce_session_limit(close_expired_sessions(OpenRows(vehicle_exit_sessions)))
        before == get_track(tracks1, k)
        inf == infer_direction(payload, before, get_streak(side_streaks, k))
        track == upsert_track(inf.row, inf.side)
        direction == inf.direction
        countIn == direction = "in" /\ track.counted_in = 0
        countOut == direction = "out" /\ track.counted_out = 0
        person == label = "person"
        plate_norm == IF ocr_enabled THEN normalize_plate(extract_plate(payload)) ELSE <<>>
        left == apply_left_exit_decrement(sessions1)
        people1 == IF countIn /\ person THEN people0 + 1
                   ELSE IF countOut THEN Max0(people0 - 1)
                   ELSE people0
        vehicle1 == IF countIn /\ ~person THEN vehicle0 + 1
                    ELSE IF countOut /\ ~person THEN Max0(vehicle0 - 1)
                    ELSE vehicle0
        events1 ==
            IF countIn /\ person
            THEN log_counter_event(<<>>, label, "in", 1, people1, "person_in")
            ELSE IF countIn
            THEN log_counter_event(<<>>, label, "in", 1, vehicle1, "vehicle_in")
            ELSE IF countOut /\ person
            THEN log_counter_event(<<>>, label, "out", -1, people1,
                    IF left.applied THEN "left_side_exit_after_vehicle" ELSE "person_out")
            ELSE IF countOut
            THEN log_counter_event(
                    log_counter_event(<<>>, label, "out", -1, vehicle1, "vehicle_out"),
                    "person", "out", -1, people1, "driver_exit_assumed_right")
            ELSE <<>>
        sessions2 ==
            IF countOut /\ person THEN left.sessions
            ELSE IF countOut THEN create_vehicle_exit_session(sessions1)
            ELSE sessions1
        vsessions1 ==
            IF countIn /\ ~person THEN open_vehicle_session(vehicle_sessions, k, plate_norm)
            ELSE IF countOut /\ ~person THEN close_vehicle_session(vehicle_sessions, k, plate_norm)
            ELSE vehicle_sessions
        vehicle_session_id ==
            IF countIn THEN Len(vehicle_sessions) + 1
            ELSE FindOpenVehicleSession(vehicle_sessions, k, plate_norm)
        vehicle_identity ==
            IF person THEN resolve_vehicle_identity(<<>>, 0)
            ELSE resolve_vehicle_identity(plate_norm, vehicle_session_id)
        psessions1 ==
            IF countIn /\ person THEN open_person_session(person_sessions, k)
            ELSE IF countOut /\ person THEN close_person_session(person_sessions, k)
            ELSE person_sessions
        attribution1 ==
            IF countIn \/ countOut
            THEN insert_driver_attribution(driver_attribution, direction,
                    get_person_identity_for_session, vehicle_identity)
            ELSE driver_attribution
        marked == IF countIn \/ countOut THEN mark_track_counted(track, direction) ELSE track
        row == [marked EXCEPT !.n_in = IF countIn THEN @ + 1 ELSE @,
                              !.n_out = IF countOut THEN @ + 1 ELSE @]
        isNew == ~before.present /\ get_streak(side_streaks, k) = NoStreak
        added == IF person THEN people1 - people_count ELSE vehicle1 - vehicle_count
    IN  /\ people1 <= MaxCount
        /\ vehicle1 <= MaxCount
        /\ inf.streak.n <= MaxStreak
        /\ Len(vsessions1) <= MaxVehicleSessions
        /\ \A p \in DOMAIN psessions1 : psessions1[p] <= MaxOpenPersonSessions
        /\ people_count' = people1
        /\ vehicle_count' = vehicle1
        /\ object_tracks' = IF k \in TrackKeys THEN [tracks1 EXCEPT ![k] = row] ELSE tracks1
        /\ side_streaks' = IF k \in TrackKeys THEN [side_streaks EXCEPT ![k] = inf.streak]
                           ELSE side_streaks
        /\ vehicle_exit_sessions' = sessions2
        /\ vehicle_sessions' = vsessions1
        /\ person_sessions' = psessions1
        /\ driver_attribution' = attribution1
        /\ counter_events' = events1
        /\ step' = [op |-> "handle_counting", key |-> k, source |-> inf.source,
                    direction |-> direction,
                    counted |-> IF countIn THEN "in" ELSE IF countOut THEN "out" ELSE NULL,
                    applied_left |-> countOut /\ person /\ left.applied,
                    floored |-> countOut /\ (people0 = 0 \/ (~person /\ vehicle0 = 0)),
                    deduped |-> (countIn \/ countOut) /\ attribution1 = driver_attribution,
                    moved |-> NULL, type |-> type, plate |-> payload.plate,
                    token |-> payload.direction, after_token |-> payload.after_direction,
                    attempted |-> FALSE, notified |-> "none", read_ok |-> read_ok]
        /\ run' = NextRun(k, payload, isNew, inf.side, countIn, added)
        /\ trail' = NextTrail(countOut, person)

-----------------------------------------------------------------------------
(* View-mode controller.                                                   *)

set_ptz_state_no_view(mode, ocr_enabled, last_view) ==
    [mode |-> mode, ocr_enabled |-> ocr_enabled, last_view |-> NoView]

set_ptz_state(mode, ocr_enabled, last_view) ==
    [mode |-> mode, ocr_enabled |-> ocr_enabled, last_view |-> last_view]

insert_ptz_event(E, action, prev_mode, new_mode) ==
    Append(E, [action |-> action, prev_mode |-> prev_mode, new_mode |-> new_mode])

update_ptz_last_view_any_mode(state) == [state EXCEPT !.last_view = 0]

update_ptz_last_view(state) ==
    IF state.mode # "panorama" THEN state ELSE [state EXCEPT !.last_view = 0]

get_ptz_countdown_seconds_any_mode(state) ==
    IF state.last_view = NoView THEN PTZ_AUTO_RETURN_SECONDS
    ELSE Max0(PTZ_AUTO_RETURN_SECONDS - state.last_view)

\* remaining = PTZ_AUTO_RETURN_SECONDS - int(elapsed), not below 0
get_ptz_countdown_seconds(state) ==
    IF state.mode # "panorama" THEN 0
    ELSE IF state.last_view = NoView THEN PTZ_AUTO_RETURN_SECONDS
    ELSE Max0(PTZ_AUTO_RETURN_SECONDS - state.last_view)

is_motion_event_any_type(type, label) == label \in OCR_MOTION_TRIGGER_LABELS

is_motion_event(type, label) == type = "new" /\ label \in OCR_MOTION_TRIGGER_LABELS

handle_ocr_motion_trigger_no_view(state, type, label) ==
    IF ~is_motion_event(type, label)
    THEN [state |-> state, events |-> <<>>]
    ELSE IF state.ocr_enabled = 1
    THEN [state |-> set_ptz_state(state.mode, 0, NoView),
          events |-> insert_ptz_event(<<>>, "auto_disable_ocr", state.mode, state.mode)]
    ELSE [state |-> update_ptz_last_view(state), events |-> <<>>]

\* The state and the ptz_events rows that handle_ocr_motion_trigger leaves.
handle_ocr_motion_trigger(state, type, label) ==
    IF ~is_motion_event(type, label)
    THEN [state |-> state, events |-> <<>>]
    ELSE IF state.ocr_enabled = 1
    THEN [state |-> set_ptz_state(state.mode, 0, 0),
          events |-> insert_ptz_event(<<>>, "auto_disable_ocr", state.mode, state.mode)]
    ELSE [state |-> update_ptz_last_view(state), events |-> <<>>]

get_track_key(k) == IF k = NoId THEN NULL ELSE k

\* The table vehicle_whitelist as init_db creates it.
vehicle_whitelist == {}

is_plate_whitelisted(plate_norm) == plate_norm \in vehicle_whitelist

\* The pending_plates rows that handle_plate_workflow inserts.
handle_plate_workflow(ocr_enabled, payload) ==
    LET plate_raw == extract_plate(payload)
        plate_norm == normalize_plate(plate_raw)
    IN  IF ~ocr_enabled THEN <<>>
        ELSE IF plate_norm = <<>> THEN <<>>
        ELSE IF is_plate_whitelisted(plate_norm) THEN <<>>
        ELSE <<[plate_raw |-> plate_raw, plate_norm |-> plate_norm, status |-> "pending"]>>

\* on_mqtt_message for a message on the events topic: the motion trigger,
\* then the plate workflow and the counting engine, which both read the OCR
\* flag the trigger left.
on_mqtt_message_db(type, k, payload, read_ok) ==
    LET trigger == handle_ocr_motion_trigger(ptz_state, type, LabelOf(k))
    IN  /\ ptz_state' = trigger.state
        /\ ptz_events' = trigger.events
        /\ pending_plates' = handle_plate_workflow(trigger.state.ocr_enabled = 1, payload)
        /\ watch' = IF is_motion_event(type, LabelOf(k)) THEN [watch EXCEPT !.s = "off"] ELSE watch
        /\ UNCHANGED <<loop, heartbeat, alertVars, twVars, doorVars>>
        /\ IF get_track_key(k) = NULL
           THEN /\ step' = [NoStep EXCEPT !.op = "on_mqtt_message", !.key = k,
                                          !.type = type, !.plate = payload.plate]
                /\ UNCHANGED countVars
           ELSE CountingStep(type, k, payload, trigger.state.ocr_enabled = 1, read_ok)

\* on_mqtt_message while the store answers every read.
on_mqtt_message(type, k, payload) == on_mqtt_message_db(type, k, payload, TRUE)

\* on_mqtt_message for a message on the events topic whose payload is not
\* JSON: json.loads raises and the handler returns.
InvalidJson ==
    /\ ptz_events' = <<>>
    /\ pending_plates' = <<>>
    /\ step' = [NoStep EXCEPT !.op = "invalid_json"]
    /\ UNCHANGED <<ptz_state, watch, loop, heartbeat, alertVars, twVars, doorVars, countVars>>

handle_mqtt_command_forced(topic, payload, moved) ==
    LET prev_mode == ptz_state.mode
    IN  /\ IF topic = "shed/cmd/ptz_panorama"
           THEN IF moved
                THEN /\ ptz_state' = set_ptz_state("panorama", 0, 0)
                     /\ ptz_events' = insert_ptz_event(<<>>, "set_panorama", prev_mode, "panorama")
                ELSE /\ ptz_state' = ptz_state
                     /\ ptz_events' = insert_ptz_event(<<>>, "set_panorama_failed", prev_mode, prev_mode)
           ELSE IF topic = "shed/cmd/ptz_gate"
           THEN IF moved
                THEN /\ ptz_state' = set_ptz_state("gate", 1, NoView)
                     /\ ptz_events' = insert_ptz_event(<<>>, "set_gate", prev_mode, "gate")
                ELSE /\ ptz_state' = set_ptz_state("gate", 1, NoView)
                     /\ ptz_events' = insert_ptz_event(<<>>, "set_gate_failed", prev_mode, prev_mode)
           ELSE IF topic = "shed/cmd/ocr_enabled"
           THEN IF payload = "on"
                THEN /\ ptz_state' = set_ptz_state(prev_mode, 1, ptz_state.last_view)
                     /\ ptz_events' = insert_ptz_event(<<>>, "set_ocr_enabled", prev_mode, prev_mode)
                ELSE /\ ptz_state' = set_ptz_state(prev_mode, 0, 0)
                     /\ ptz_events' = insert_ptz_event(<<>>, "set_ocr_disabled", prev_mode, prev_mode)
           ELSE IF topic = "shed/cmd/view_heartbeat"
           THEN /\ ptz_state' = update_ptz_last_view(ptz_state)
                /\ ptz_events' = <<>>
           ELSE /\ ptz_state' = ptz_state
                /\ ptz_events' = <<>>
        /\ gate_closed' = IF topic = "shed/cmd/gate_open" THEN 0
                          ELSE IF topic = "shed/cmd/gate_closed" THEN 1
                          ELSE gate_closed
        /\ heartbeat' =
              IF topic = "shed/cmd/view_heartbeat" /\ prev_mode = "panorama" THEN 0
              ELSE IF topic = "shed/cmd/ptz_panorama" /\ moved /\ prev_mode # "panorama" THEN 0
              ELSE heartbeat
        /\ watch' = IF topic = "shed/cmd/ptz_panorama" /\ moved
                    THEN [s |-> "quiet", episode |-> 1 - watch.episode]
                    ELSE [watch EXCEPT !.s = "off"]
        /\ step' = [NoStep EXCEPT !.op = "handle_mqtt_command", !.key = topic,
                                  !.moved = IF topic \notin {"shed/cmd/ptz_panorama",
                                                             "shed/cmd/ptz_gate"} THEN NULL
                                            ELSE IF moved THEN "yes" ELSE "no"]
        /\ UNCHANGED <<loop, pending_plates, alert_last, gate_alert_events, delivered,
                       twVars, doorVars, countVars>>

\* on_mqtt_message for a message on a command topic.  moved is the outcome
\* of ptz_goto_preset, which depends on the camera.
handle_mqtt_command(topic, payload, moved) ==
    LET prev_mode == ptz_state.mode
    IN  /\ IF topic = "shed/cmd/ptz_panorama"
           THEN IF moved
                THEN /\ ptz_state' = set_ptz_state("panorama", 0, 0)
                     /\ ptz_events' = insert_ptz_event(<<>>, "set_panorama", prev_mode, "panorama")
                ELSE /\ ptz_state' = ptz_state
                     /\ ptz_events' = insert_ptz_event(<<>>, "set_panorama_failed", prev_mode, prev_mode)
           ELSE IF topic = "shed/cmd/ptz_gate"
           THEN IF moved
                THEN /\ ptz_state' = set_ptz_state("gate", 1, NoView)
                     /\ ptz_events' = insert_ptz_event(<<>>, "set_gate", prev_mode, "gate")
                ELSE /\ ptz_state' = ptz_state
                     /\ ptz_events' = insert_ptz_event(<<>>, "set_gate_failed", prev_mode, prev_mode)
           ELSE IF topic = "shed/cmd/ocr_enabled"
           THEN IF payload = "on"
                THEN /\ ptz_state' = set_ptz_state(prev_mode, 1, ptz_state.last_view)
                     /\ ptz_events' = insert_ptz_event(<<>>, "set_ocr_enabled", prev_mode, prev_mode)
                ELSE /\ ptz_state' = set_ptz_state(prev_mode, 0, 0)
                     /\ ptz_events' = insert_ptz_event(<<>>, "set_ocr_disabled", prev_mode, prev_mode)
           ELSE IF topic = "shed/cmd/view_heartbeat"
           THEN /\ ptz_state' = update_ptz_last_view(ptz_state)
                /\ ptz_events' = <<>>
           ELSE /\ ptz_state' = ptz_state
                /\ ptz_events' = <<>>
        /\ gate_closed' = IF topic = "shed/cmd/gate_open" THEN 0
                          ELSE IF topic = "shed/cmd/gate_closed" THEN 1
                          ELSE gate_closed
        /\ heartbeat' =
              IF topic = "shed/cmd/view_heartbeat" /\ prev_mode = "panorama" THEN 0
              ELSE IF topic = "shed/cmd/ptz_panorama" /\ moved /\ prev_mode # "panorama" THEN 0
              ELSE heartbeat
        /\ watch' = IF topic = "shed/cmd/ptz_panorama" /\ moved
                    THEN [s |-> "quiet", episode |-> 1 - watch.episode]
                    ELSE [watch EXCEPT !.s = "off"]
        /\ step' = [NoStep EXCEPT !.op = "handle_mqtt_command", !.key = topic,
                                  !.moved = IF topic \notin {"shed/cmd/ptz_panorama",
                                                             "shed/cmd/ptz_gate"} THEN NULL
                                            ELSE IF moved THEN "yes" ELSE "no"]
        /\ UNCHANGED <<loop, pending_plates, alert_last, gate_alert_events, delivered,
                       twVars, doorVars, countVars>>

DoorActions == {"OPEN", "CLOSE", "STOP"}

\* on_mqtt_message for a message on shed/cmd/door: control_door(payload).
\* actuated tells whether the relay was driven, which depends on the relay;
\* its failure is caught and logged.
control_door(action, actuated) ==
    LET state == IF action = "OPEN" THEN "open"
                 ELSE IF action = "CLOSE" THEN "closed"
                 ELSE door_state
    IN  /\ door_state' = state
        /\ door_published' = state
        /\ ptz_events' = <<>>
        /\ step' = [NoStep EXCEPT !.op = "control_door", !.key = action,
                                  !.moved = IF actuated THEN "yes" ELSE "no"]
        /\ UNCHANGED <<ptz_state, loop, heartbeat, watch, pending_plates, alertVars, twVars,
                       countVars>>

\* auto_return_loop, from get_ptz_state to the choice of what to do.  The
\* thread keeps the state it read; the command thread runs meanwhile.
LoopRead ==
    LET state == ptz_state
        countdown_seconds == get_ptz_countdown_seconds(state)
        idle_seconds == PTZ_AUTO_RETURN_SECONDS - get_ptz_countdown_seconds(state)
    IN  /\ loop.pc = "read"
        /\ IF state.mode = "panorama"
           THEN /\ idle_seconds >= PTZ_AUTO_RETURN_SECONDS
                /\ loop' = [pc |-> "move", mode |-> state.mode, ocr_enabled |-> state.ocr_enabled]
           ELSE /\ state.ocr_enabled = 0 /\ countdown_seconds <= 0
                /\ loop' = [pc |-> "enable", mode |-> state.mode, ocr_enabled |-> state.ocr_enabled]
        /\ step' = [NoStep EXCEPT !.op = "auto_return_loop", !.key = "read"]
        /\ UNCHANGED <<ptz_state, ptz_events, pending_plates, heartbeat, watch, alertVars, twVars, doorVars,
                       countVars>>

\* auto_return_loop in wide-view with the timeout over: ptz_goto_preset and
\* the writes that follow it.
LoopMove(moved) ==
    /\ loop.pc = "move"
    /\ IF moved
       THEN /\ ptz_state' = set_ptz_state("gate", 1, NoView)
            /\ ptz_events' = insert_ptz_event(<<>>, "auto_return", loop.mode, "gate")
            /\ counter_events' = log_counter_event(<<>>, "ptz", "auto", 0, 0, "auto_return_no_viewers")
       ELSE IF loop.ocr_enabled = 0
       THEN /\ ptz_state' = set_ptz_state(loop.mode, 1, NoView)
            /\ ptz_events' = insert_ptz_event(<<>>, "auto_enable_ocr", loop.mode, loop.mode)
            /\ counter_events' = <<>>
       ELSE /\ ptz_state' = ptz_state
            /\ ptz_events' = <<>>
            /\ counter_events' = <<>>
    /\ loop' = [loop EXCEPT !.pc = "read"]
    /\ watch' = IF ~moved THEN [watch EXCEPT !.s = "off"]
                ELSE IF watch.s = "quiet" THEN [watch EXCEPT !.s = "done"]
                ELSE watch
    /\ step' = [NoStep EXCEPT !.op = "auto_return_loop", !.key = "move",
                              !.moved = IF moved THEN "yes" ELSE "no"]
    /\ UNCHANGED <<heartbeat, pending_plates, alertVars, twVars, doorVars, people_count, vehicle_count, object_tracks, side_streaks,
                   vehicle_exit_sessions, vehicle_sessions, person_sessions,
                   driver_attribution, run, trail>>

\* auto_return_loop outside wide-view with OCR off: the writes.
LoopEnable ==
    /\ loop.pc = "enable"
    /\ ptz_state' = set_ptz_state(loop.mode, 1, NoView)
    /\ ptz_events' = insert_ptz_event(<<>>, "auto_enable_ocr", loop.mode, loop.mode)
    /\ loop' = [loop EXCEPT !.pc = "read"]
    /\ step' = [NoStep EXCEPT !.op = "auto_return_loop", !.key = "enable"]
    /\ UNCHANGED <<heartbeat, watch, pending_plates, alertVars, twVars, doorVars, countVars>>

-----------------------------------------------------------------------------
(* Alert loop.                                                             *)

should_send_always(last_sent) == TRUE

\* should_send: no alert was sent yet, or the latest is ALERT_COOLDOWN_SECONDS old
should_send(last_sent) ==
    last_sent = NoView \/ last_sent >= ALERT_COOLDOWN_SECONDS

insert_gate_alert_event(E, closed, people, note) ==
    Append(E, [gate_closed |-> closed, people_count |-> people, note |-> note])

\* One pass of alert_loop.  snapshot tells whether fetch_snapshot returned an
\* image, photo whether send_telegram_photo delivered it.
AlertLoop(snapshot, photo) ==
    LET attempt == people_count = 0 /\ gate_closed = 0 /\ should_send(alert_last)
        sent == attempt /\ snapshot /\ photo
    IN  /\ IF sent
           THEN /\ gate_alert_events' =
                      insert_gate_alert_event(<<>>, gate_closed, people_count, "no_one_gate_open")
                /\ alert_last' = 0
                /\ delivered' = [age |-> 0, n |-> IF delivered.n < 2 THEN delivered.n + 1 ELSE 2]
           ELSE /\ gate_alert_events' = <<>>
                /\ UNCHANGED <<alert_last, delivered>>
        /\ step' = [NoStep EXCEPT !.op = "alert_loop", !.attempted = attempt,
                                  !.notified = IF sent THEN "photo" ELSE "none"]
        /\ UNCHANGED <<gate_closed, ptz_state, ptz_events, pending_plates, loop, heartbeat,
                       watch, twVars, doorVars, countVars>>

-----------------------------------------------------------------------------
(* TripwireTracker (core/tripwire.py).                                     *)

TwObjs == {1, 2}

\* the centre of a box above the line, on it and below it
CenterYs == {line_y - 1, line_y, line_y + 1}

Put_alone(d, k, v) == [o \in {k} |-> v]

\* d[k] = v
Put(d, k, v) == [o \in DOMAIN d \cup {k} |-> IF o = k THEN v ELSE d[o]]

\* for k in ks: d.pop(k, None)
Pop(d, ks) == [o \in DOMAIN d \ ks |-> d[o]]

ObsCap == 2 * MaxBuffer + 1

\* history: s with x added, the latest ObsCap entries kept
Record(s, x) == IF Len(s) < ObsCap THEN Append(s, x) ELSE Append(Tail(s), x)

\* __init__: the buffer is at least one frame long
TripwireTracker(buffer_frames) ==
    /\ tw_buffer = 0
    /\ tw_buffer' = IF buffer_frames > 1 THEN buffer_frames ELSE 1
    /\ tw_step' = [NoTwStep EXCEPT !.op = "construct"]
    /\ UNCHANGED <<tw_positions, tw_confirmed_side, tw_last_fire, tw_last_seen, tw_now,
                   tw_obs, tw_results, tw_event_age, tw_last_event, tw_still>>
    /\ UNCHANGED bridgeVars /\ UNCHANGED <<run, trail>>

\* below: True = inside, at or under the line
is_below(center_y) == center_y >= line_y

\* deque(maxlen).append
deque_append(buf, x, maxlen) ==
    IF Len(buf) < maxlen THEN Append(buf, x) ELSE Append(Tail(buf), x)

all_below(buf) == \A i \in 1..Len(buf) : buf[i]

all_above_always(buf) == TRUE

all_above(buf) == \A i \in 1..Len(buf) : ~buf[i]

consistent_any(buf) == TRUE

consistent(buf) == all_below(buf) \/ all_above(buf)

in_cooldown_inclusive(elapsed) == elapsed <= cooldown_secs

\* now - last < self._cooldown
in_cooldown(elapsed) == elapsed < cooldown_secs

\* now - self._last_fire.get(obj_id, 0.0)
since_last_fire(obj_id) ==
    IF obj_id \in DOMAIN tw_last_fire THEN tw_last_fire[obj_id] ELSE tw_now

side_changed_or_same(prev_side, new_side) == prev_side # <<>>

\* a side was confirmed before and the new one is the other
side_changed(prev_side, new_side) == prev_side # <<>> /\ prev_side # <<new_side>>

\* history: the latest event of an object, the run of observations on the
\* other side since, and whether that run reached n
NoteEvent(d, obj_id, result, below, n) ==
    IF result # "None" THEN Put(d, obj_id, [dir |-> result, run |-> 0, opp |-> FALSE])
    ELSE IF obj_id \notin DOMAIN d THEN d
    ELSE LET e == d[obj_id]
             r == IF below = (e.dir = "OUT") THEN Sat(e.run + 1, n) ELSE 0
         IN  Put(d, obj_id, [dir |-> e.dir, run |-> r, opp |-> e.opp \/ r >= n])

update(obj_id, center_y) ==
    LET below == is_below(center_y)
        known == obj_id \in DOMAIN tw_positions
        buf == deque_append(IF known THEN tw_positions[obj_id] ELSE <<>>, below, tw_buffer)
        prev_side == IF known THEN tw_confirmed_side[obj_id] ELSE <<>>
        confirmed == Len(buf) >= tw_buffer /\ consistent(buf)
        new_side == all_below(buf)
        flip == confirmed /\ side_changed(prev_side, new_side)
        fire == flip /\ ~in_cooldown(since_last_fire(obj_id))
        result == IF fire THEN (IF new_side THEN "IN" ELSE "OUT") ELSE "None"
    IN  /\ tw_buffer > 0
        /\ tw_positions' = Put(tw_positions, obj_id, buf)
        /\ tw_last_seen' = Put(tw_last_seen, obj_id, 0)
        /\ tw_confirmed_side' =
              Put(tw_confirmed_side, obj_id,
                  IF confirmed /\ (prev_side = <<>> \/ flip) THEN <<new_side>> ELSE prev_side)
        /\ tw_last_fire' = IF fire THEN Put(tw_last_fire, obj_id, 0) ELSE tw_last_fire
        /\ tw_step' = [NoTwStep EXCEPT !.op = "update", !.obj_id = obj_id, !.below = below,
                                       !.result = result]
        /\ tw_obs' = Put(tw_obs, obj_id,
                         Record(IF obj_id \in DOMAIN tw_obs THEN tw_obs[obj_id] ELSE <<>>, below))
        /\ tw_results' = Put(tw_results, obj_id,
                             Record(IF obj_id \in DOMAIN tw_results THEN tw_results[obj_id]
                                    ELSE <<>>, result))
        /\ tw_event_age' = IF result # "None" THEN Put(tw_event_age, obj_id, 0) ELSE tw_event_age
        /\ tw_last_event' = NoteEvent(tw_last_event, obj_id, result, below, tw_buffer)
        /\ UNCHANGED <<tw_buffer, tw_now, tw_still>>
        /\ UNCHANGED bridgeVars /\ UNCHANGED <<run, trail>>

is_stale_inclusive(age) == age >= stale_secs

\* now - ts > self._stale
is_stale(age) == age > stale_secs

\* len(self._positions)
active_count == Cardinality(DOMAIN tw_positions)

\* cleanup_stale: by_ids is FALSE for active_ids = None
cleanup_stale(by_ids, active_ids) ==
    LET stale_ids == {oid \in DOMAIN tw_last_seen :
                        is_stale(tw_last_seen[oid]) \/ (by_ids /\ oid \notin active_ids)}
    IN  /\ tw_buffer > 0
        /\ tw_positions' = Pop(tw_positions, stale_ids)
        /\ tw_confirmed_side' = Pop(tw_confirmed_side, stale_ids)
        /\ tw_last_fire' = Pop(tw_last_fire, stale_ids)
        /\ tw_last_seen' = Pop(tw_last_seen, stale_ids)
        /\ tw_step' = [NoTwStep EXCEPT !.op = "cleanup_stale", !.by_ids = by_ids,
                                       !.active_ids = active_ids, !.removed = stale_ids]
        /\ tw_obs' = Pop(tw_obs, stale_ids)
        /\ tw_results' = Pop(tw_results, stale_ids)
        /\ tw_event_age' = Pop(tw_event_age, stale_ids)
        /\ tw_last_event' = Pop(tw_last_event, stale_ids)
        /\ tw_still' = (tw_still \/ DOMAIN tw_positions \subseteq stale_ids)
        /\ UNCHANGED <<tw_buffer, tw_now>>
        /\ UNCHANGED bridgeVars /\ UNCHANGED <<run, trail>>

AgeDict(d, by, cap) == [o \in DOMAIN d |-> Sat(d[o] + by, cap)]

\* The monotonic clock advances by d.
TwTick(d) ==
    /\ tw_now' = Sat(tw_now + d, cooldown_secs)
    /\ tw_last_fire' = AgeDict(tw_last_fire, d, cooldown_secs)
    /\ tw_last_seen' = AgeDict(tw_last_seen, d, stale_secs + 1)
    /\ tw_event_age' = AgeDict(tw_event_age, d, cooldown_secs)
    /\ tw_step' = [NoTwStep EXCEPT !.op = "tick"]
    /\ tw_still' = (tw_still /\ DOMAIN tw_positions = {})
    /\ UNCHANGED <<tw_buffer, tw_positions, tw_confirmed_side, tw_obs, tw_results,
                   tw_last_event>>
    /\ UNCHANGED bridgeVars /\ UNCHANGED <<run, trail>>

-----------------------------------------------------------------------------
(* Passage of time.                                                        *)

AgeTracks(tracks, d) ==
    [k \in DOMAIN tracks |->
        IF tracks[k].present
        THEN [tracks[k] EXCEPT !.age = Sat(@ + d, TRACK_TTL_SECONDS + 1)]
        ELSE tracks[k]]

AgeSessions(S, d) ==
    LET T == OpenRows(S)
    IN  [i \in DOMAIN T |-> [T[i] EXCEPT !.age = Sat(@ + d, LEFT_EXIT_WINDOW_SECONDS + 1)]]

\* A row older than the dedupe window is dropped: the one query on the table
\* selects ts_utc >= now - DEDUPE_SECONDS.
AgeAttribution(A, d) ==
    LET kept == {r \in BagToSet(A) : r.age + d <= DEDUPE_SECONDS}
    IN  [r \in {[x EXCEPT !.age = @ + d] : x \in kept} |-> A[[r EXCEPT !.age = @ - d]]]

AgeView(p, d) ==
    IF p.last_view = NoView THEN p
    ELSE [p EXCEPT !.last_view = Sat(@ + d, PTZ_AUTO_RETURN_SECONDS)]

AgeTrail(t, d) ==
    IF t.n >= 0 /\ t.age + d <= LEFT_EXIT_WINDOW_SECONDS
    THEN [t EXCEPT !.age = @ + d] ELSE NoTrail

Tick(d) ==
    /\ object_tracks' = AgeTracks(object_tracks, d)
    /\ vehicle_exit_sessions' = AgeSessions(vehicle_exit_sessions, d)
    /\ driver_attribution' = AgeAttribution(driver_attribution, d)
    /\ ptz_state' = AgeView(ptz_state, d)
    /\ heartbeat' = IF heartbeat = NoView THEN NoView
                    ELSE Sat(heartbeat + d, PTZ_AUTO_RETURN_SECONDS)
    /\ ptz_events' = <<>>
    /\ pending_plates' = <<>>
    /\ counter_events' = <<>>
    /\ alert_last' = IF alert_last = NoView THEN NoView
                     ELSE Sat(alert_last + d, ALERT_COOLDOWN_SECONDS)
    /\ delivered' = IF delivered.age = NoView THEN delivered
                    ELSE [delivered EXCEPT !.age = Sat(@ + d, ALERT_COOLDOWN_SECONDS)]
    /\ gate_alert_events' = <<>>
    /\ step' = [NoStep EXCEPT !.op = "tick"]
    /\ run' = NoRun
    /\ trail' = AgeTrail(trail, d)
    /\ UNCHANGED <<people_count, vehicle_count, side_streaks, vehicle_sessions,
                   person_sessions, loop, watch, gate_closed, twVars, doorVars>>

-----------------------------------------------------------------------------
(* Spec: the crossing detector and the counting engine on the followed     *)
(* track keys, one track at a time, with box events and direction tokens.  *)

GateTickSteps == {TRACK_TTL_SECONDS, TRACK_TTL_SECONDS + 1}

\* No event of another followed key has been handled.
OtherTracksUnseen(k) ==
    \A j \in TrackKeys \ {k} : ~object_tracks[j].present /\ side_streaks[j] = NoStreak

TrackedEvent(k, payload) ==
    /\ OtherTracksUnseen(k)
    /\ on_mqtt_message("update", k, payload)

Next ==
    \/ \E k \in TrackKeys :
          \E payload \in BoxPayloads \cup TokenPayloads \cup TokenBoxPayloads
                         \cup AfterTokenPayloads :
             TrackedEvent(k, payload)
    \/ \E d \in GateTickSteps : Tick(d)

Spec == Init /\ [][Next]_vars

(* SpecPool: the counting engine and the exit-leniency pool under          *)
(* direction tokens of ever new tracks.                                    *)

PoolTickSteps == {LEFT_EXIT_WINDOW_SECONDS, LEFT_EXIT_WINDOW_SECONDS + 1}

NextPool ==
    \/ \E k \in FreshKeys, payload \in TokenPayloads : on_mqtt_message("update", k, payload)
    \/ \E d \in PoolTickSteps : Tick(d)

SpecPool == Init /\ [][NextPool]_vars

(* SpecAttr: driver attribution under vehicle events that carry plates.    *)

AttrTickSteps == {DEDUPE_SECONDS, DEDUPE_SECONDS + 1}

NextAttr ==
    \/ \E payload \in PlatePayloads : on_mqtt_message("update", "cam1:car:*", payload)
    \/ \E d \in AttrTickSteps : Tick(d)

SpecAttr == Init /\ [][NextAttr]_vars

(* SpecPtz: the view-mode controller under commands, heartbeats and motion *)
(* events, with the idle loop as a thread of its own.                      *)

PtzTickSteps == {10, PTZ_AUTO_RETURN_SECONDS - 10}

MotionPayload == [direction |-> NULL, after_direction |-> NULL, box |-> <<>>, plate |-> <<>>]

LoopStep == LoopRead \/ (\E moved \in BOOLEAN : LoopMove(moved)) \/ LoopEnable

TimeStep == \E d \in PtzTickSteps : Tick(d)

NextPtz ==
    \/ \E topic \in CommandTopics, payload \in CommandPayloads, moved \in BOOLEAN :
          handle_mqtt_command(topic, payload, moved)
    \/ on_mqtt_message("new", NoId, MotionPayload)
    \/ LoopStep
    \/ TimeStep

SpecPtz == Init /\ [][NextPtz]_vars

\* The loop thread keeps running and time keeps passing.
FairSpecPtz == SpecPtz /\ WF_vars(LoopStep) /\ WF_vars(TimeStep)

(* SpecOcr: plate recognition under mode and OCR commands, with events of  *)
(* vehicles that carry a plate text and no direction.                      *)

EventTypes == {"new", "update"}

OcrPayloads == [direction : {NULL}, after_direction : {NULL}, box : {<<>>}, plate : Plates]

OcrTickSteps == {PTZ_AUTO_RETURN_SECONDS}

NextOcr ==
    \/ \E topic \in CommandTopics, payload \in CommandPayloads, moved \in BOOLEAN :
          handle_mqtt_command(topic, payload, moved)
    \/ \E type \in EventTypes, payload \in OcrPayloads :
          on_mqtt_message(type, "cam1:car:*", payload)
    \/ LoopStep
    \/ \E d \in OcrTickSteps : Tick(d)

SpecOcr == Init /\ [][NextOcr]_vars

(* SpecStore: the counting engine under direction tokens of ever new        *)
(* tracks, with a store whose read of counters_state may fail.             *)

NextStore ==
    \/ \E k \in FreshKeys, payload \in TokenPayloads, read_ok \in BOOLEAN :
          on_mqtt_message_db("update", k, payload, read_ok)
    \/ \E d \in PoolTickSteps : Tick(d)

SpecStore == Init /\ [][NextStore]_vars

(* SpecDoor: the command handler under door, barrier and mode commands.    *)

NextDoor ==
    \/ \E action \in DoorActions, actuated \in BOOLEAN : control_door(action, actuated)
    \/ \E topic \in GateTopics \cup {"shed/cmd/ptz_panorama", "shed/cmd/ptz_gate"},
          moved \in BOOLEAN :
          handle_mqtt_command(topic, "1", moved)

SpecDoor == Init /\ [][NextDoor]_vars

(* SpecMalformed: payloads that are not JSON and events without an id,     *)
(* among mode commands and people going in and out.                        *)

NextMalformed ==
    \/ InvalidJson
    \/ \E type \in EventTypes, payload \in TokenPayloads : on_mqtt_message(type, NoId, payload)
    \/ \E payload \in TokenPayloads : on_mqtt_message("update", "cam1:person:*", payload)
    \/ \E topic \in {"shed/cmd/ptz_panorama", "shed/cmd/ptz_gate"}, moved \in BOOLEAN :
          handle_mqtt_command(topic, "1", moved)
    \/ \E d \in OcrTickSteps : Tick(d)

SpecMalformed == Init /\ [][NextMalformed]_vars

(* SpecAlert: the alert loop under gate commands and people going in and   *)
(* out.                                                                    *)

AlertTickSteps == {CHECK_INTERVAL_SECONDS, ALERT_COOLDOWN_SECONDS - CHECK_INTERVAL_SECONDS}

NextAlert ==
    \/ \E topic \in GateTopics : handle_mqtt_command(topic, "1", FALSE)
    \/ \E payload \in TokenPayloads : on_mqtt_message("update", "cam1:person:*", payload)
    \/ \E snapshot \in BOOLEAN, photo \in BOOLEAN : AlertLoop(snapshot, photo)
    \/ \E d \in AlertTickSteps : Tick(d)

SpecAlert == Init /\ [][NextAlert]_vars

(* SpecTripwire: one object in front of a tracker.                         *)

TwTickSteps == {1, cooldown_secs - 1, stale_secs}

NextTripwire ==
    \/ \E buffer_frames \in 0..MaxBuffer : TripwireTracker(buffer_frames)
    \/ \E center_y \in CenterYs : update(1, center_y)
    \/ \E by_ids \in BOOLEAN : cleanup_stale(by_ids, {})
    \/ \E d \in TwTickSteps : TwTick(d)

SpecTripwire == Init /\ [][NextTripwire]_vars

(* SpecTripwirePair: two objects in front of a tracker, their calls        *)
(* interleaved, each followed for the length of one crossing, and cleanups *)
(* by active set and by timeout.                                           *)

PairTickSteps == {stale_secs, stale_secs + 1}

\* the update calls made for an object since it was first seen
Calls(obj_id) == IF obj_id \in DOMAIN tw_obs THEN Len(tw_obs[obj_id]) ELSE 0

NextTripwirePair ==
    \/ \E buffer_frames \in 0..MaxBuffer : TripwireTracker(buffer_frames)
    \/ \E obj_id \in TwObjs, center_y \in CenterYs :
          Calls(obj_id) < 2 * tw_buffer /\ update(obj_id, center_y)
    \/ \E active_ids \in SUBSET TwObjs : cleanup_stale(TRUE, active_ids)
    \/ cleanup_stale(FALSE, {})
    \/ \E d \in PairTickSteps : TwTick(d)

SpecTripwirePair == Init /\ [][NextTripwirePair]_vars

-----------------------------------------------------------------------------
(* Properties of the counting engine.                                      *)

\* C1: people_count and vehicle_count are never negative, also when an OUT
\* arrives at a count of 0 and when a vehicle OUT takes the driver off.
CountersNonNegative == people_count >= 0 /\ vehicle_count >= 0

\* A vehicle OUT was counted while a counter it decrements was already 0.
C1_Witness ==
    /\ step.op = "handle_counting"
    /\ step.counted = "out"
    /\ LabelOf(step.key) = "car"
    /\ step.floored
    /\ people_count = 0
    /\ vehicle_count = 0

\* The observations "debounce count times outside, then as often inside".
OutsideThenInside ==
    [i \in 1..(2 * GATE_DEBOUNCE_UPDATES) |->
        IF i <= GATE_DEBOUNCE_UPDATES THEN "left" ELSE INSIDE_SIDE]

\* C2: once a new track key has sent GATE_DEBOUNCE_UPDATES box events on the
\* outside and then as many on the inside, without direction token, exactly
\* one IN was confirmed and the counter of its class went up by exactly 1.
C2_OneInAfterDebouncedCrossing ==
    run.sides = OutsideThenInside => run.fired = 1 /\ run.added = 1

\* C3: a box event that leaves the same-side streak of its track below the
\* debounce count fires no crossing and leaves the last_side stored for the
\* track as it was.
C3_ShortRunKeepsStoredSide ==
    [][ ( /\ step'.op = "handle_counting"
          /\ step'.source = "virtual"
          /\ step'.key \in TrackKeys
          /\ object_tracks[step'.key].present
          /\ object_tracks[step'.key].age <= TRACK_TTL_SECONDS
          /\ side_streaks'[step'.key].n < GATE_DEBOUNCE_UPDATES )
        => ( /\ step'.direction = NULL
             /\ object_tracks'[step'.key].last_side = object_tracks[step'.key].last_side )
      ]_vars

\* C4: the number of active vehicle_exit_sessions rows is at most
\* MAX_ACTIVE_VEHICLE_EXIT_SESSIONS in every state between two operations.
C4_ActiveSessionsBounded ==
    active_session_count(vehicle_exit_sessions) <= MAX_ACTIVE_VEHICLE_EXIT_SESSIONS

\* C5 as stated: a counted person OUT is explained, and raises the
\* decrements-used of exactly one session by 1, if and only if some active
\* session is inside the window and not exhausted; else it is plain and no
\* session's decrements-used changes.
C5_AnyQualifyingSession ==
    [][ ( /\ step'.op = "handle_counting"
          /\ step'.counted = "out"
          /\ LabelOf(step'.key) = "person" )
        => LET T == OpenRows(vehicle_exit_sessions)
               S2 == vehicle_exit_sessions'
               raised == {i \in DOMAIN T :
                            S2[i].left_person_decrements = T[i].left_person_decrements + 1}
               same == {i \in DOMAIN T :
                            S2[i].left_person_decrements = T[i].left_person_decrements}
           IN  /\ Len(S2) = Len(T)
               /\ IF \E i \in DOMAIN T :
                        /\ T[i].age <= LEFT_EXIT_WINDOW_SECONDS
                        /\ T[i].left_person_decrements < T[i].max_left_person_decrements
                  THEN /\ Cardinality(raised) = 1
                       /\ raised \cup same = DOMAIN T
                       /\ step'.applied_left
                       /\ counter_events'[1].note = "left_side_exit_after_vehicle"
                  ELSE /\ same = DOMAIN T
                       /\ ~step'.applied_left
                       /\ counter_events'[1].note = "person_out"
      ]_vars

\* C5 amended: a counted person OUT is explained, and raises the
\* decrements-used of the most recently started active session by 1, if and
\* only if that session is inside the window and not exhausted; else it is
\* plain and no session's decrements-used changes.
C5_NewestActiveSession ==
    [][ ( /\ step'.op = "handle_counting"
          /\ step'.counted = "out"
          /\ LabelOf(step'.key) = "person" )
        => LET T == OpenRows(vehicle_exit_sessions)
               S2 == vehicle_exit_sessions'
               n == Len(T)
               same == {i \in DOMAIN T :
                            S2[i].left_person_decrements = T[i].left_person_decrements}
           IN  /\ Len(S2) = n
               /\ IF /\ n > 0
                     /\ T[n].age <= LEFT_EXIT_WINDOW_SECONDS
                     /\ T[n].left_person_decrements < T[n].max_left_person_decrements
                  THEN /\ S2[n].left_person_decrements = T[n].left_person_decrements + 1
                       /\ same = DOMAIN T \ {n}
                       /\ step'.applied_left
                       /\ counter_events'[1].note = "left_side_exit_after_vehicle"
                  ELSE /\ same = DOMAIN T
                       /\ ~step'.applied_left
                       /\ counter_events'[1].note = "person_out"
      ]_vars

\* A person OUT was explained by the newer of two active sessions.
C5_Witness ==
    /\ step.op = "handle_counting"
    /\ step.applied_left
    /\ Len(vehicle_exit_sessions) = 2
    /\ vehicle_exit_sessions[1].active = 1
    /\ vehicle_exit_sessions[1].left_person_decrements = 0
    /\ vehicle_exit_sessions[2].left_person_decrements > 0

C7_CountedOncePerDirection ==
    /\ [](\A k \in TrackKeys : object_tracks[k].n_in <= 1 /\ object_tracks[k].n_out <= 1)
    /\ [][ ( /\ step'.op = "handle_counting"
             /\ step'.key \in TrackKeys
             /\ object_tracks[step'.key].present
             /\ object_tracks[step'.key].age <= TRACK_TTL_SECONDS
             /\ \/ step'.direction = "in" /\ object_tracks[step'.key].counted_in = 1
                \/ step'.direction = "out" /\ object_tracks[step'.key].counted_out = 1 )
           => ( /\ people_count' = people_count
                /\ vehicle_count' = vehicle_count
                /\ counter_events' = <<>> )
         ]_vars

\* An IN was delivered again for a track already counted in.
C7_Witness ==
    /\ step.op = "handle_counting"
    /\ step.direction = "in"
    /\ step.counted = NULL
    /\ object_tracks[step.key].n_in = 1
    /\ people_count + vehicle_count = 1

\* C8: no two driver_attribution rows with the same person, vehicle and
\* direction are DEDUPE_SECONDS or less apart.  Two such rows are both not
\* older than DEDUPE_SECONDS at the moment the later one is inserted.
C8_AttributionDeduped ==
    \A r1 \in BagToSet(driver_attribution) :
        /\ driver_attribution[r1] = 1
        /\ \A r2 \in BagToSet(driver_attribution) :
              ( /\ r1.person_identity = r2.person_identity
                /\ r1.vehicle_identity = r2.vehicle_identity
                /\ r1.direction = r2.direction ) => r1 = r2

\* The insert for a vehicle known by its plate was suppressed by a row
\* exactly DEDUPE_SECONDS old.
C8_Witness ==
    /\ step.op = "handle_counting"
    /\ step.deduped
    /\ \E r \in BagToSet(driver_attribution) :
          r.age = DEDUPE_SECONDS /\ r.vehicle_identity.name = "plate"

-----------------------------------------------------------------------------
(* Properties of the view-mode controller.                                 *)

\* C9: an auto_return event is logged, the mode going from panorama to gate,
\* only when the latest heartbeat in wide-view, or else the entry to
\* wide-view, is at least PTZ_AUTO_RETURN_SECONDS old.
C9_AutoReturnOnlyAfterTimeout ==
    (ptz_events # <<>> /\ ptz_events[1].action = "auto_return")
        => heartbeat >= PTZ_AUTO_RETURN_SECONDS

\* C10: from a successful panorama command on, unless a heartbeat, a command
\* or a motion event arrives or a move to the gate preset fails, the idle
\* loop at some time sets mode gate with OCR on and logs auto_return.
C10_QuietPanoramaReturns ==
    \A e \in {0, 1} :
        (watch.s = "quiet" /\ watch.episode = e) ~>
            \/ watch.s = "off"
            \/ watch.episode # e
            \/ /\ ptz_state.mode = "gate"
               /\ ptz_state.ocr_enabled = 1
               /\ ptz_events # <<>>
               /\ ptz_events[1].action = "auto_return"

\* C11: a panorama or gate command whose move does not succeed leaves mode,
\* ocr_enabled and last_view as they were and logs exactly one event, the
\* failed variant of the command, with prev_mode = new_mode.
C11_FailedMoveKeepsState ==
    [][ ( /\ step'.op = "handle_mqtt_command"
          /\ step'.key \in {"shed/cmd/ptz_panorama", "shed/cmd/ptz_gate"}
          /\ step'.moved = "no" )
        => ( /\ ptz_state' = ptz_state
             /\ Len(ptz_events') = 1
             /\ ptz_events'[1].action =
                   IF step'.key = "shed/cmd/ptz_panorama"
                   THEN "set_panorama_failed" ELSE "set_gate_failed"
             /\ ptz_events'[1].prev_mode = ptz_state.mode
             /\ ptz_events'[1].new_mode = ptz_state.mode )
      ]_vars

\* A gate command failed in wide-view after the heartbeat time had aged.
C11_Witness ==
    /\ step.op = "handle_mqtt_command"
    /\ step.key = "shed/cmd/ptz_gate"
    /\ step.moved = "no"
    /\ ptz_state.mode = "panorama"
    /\ ptz_state.ocr_enabled = 0
    /\ ptz_state.last_view > 0

C13_HeartbeatFrame ==
    [][ ( /\ step'.op = "handle_mqtt_command"
          /\ step'.key = "shed/cmd/view_heartbeat" )
        => IF ptz_state.mode = "panorama"
           THEN ptz_state' = [ptz_state EXCEPT !.last_view = 0]
           ELSE ptz_state' = ptz_state
      ]_vars

\* A heartbeat arrived in gate mode while a last_view time was stored.
C13_Witness ==
    /\ step.op = "handle_mqtt_command"
    /\ step.key = "shed/cmd/view_heartbeat"
    /\ ptz_state.mode = "gate"
    /\ ptz_state.last_view # NoView

\* C14: a message of type new and label car with a plate that is not on the
\* whitelist inserts no pending_plates row when it arrives in wide-view with
\* OCR off, and inserts a pending_plates row for its plate when it arrives
\* right after a gate command whose move succeeded.
C14_OcrGatesPlates ==
    [][ ( /\ step'.op = "handle_counting"
          /\ step'.type = "new"
          /\ LabelOf(step'.key) = "car"
          /\ normalize_plate(step'.plate) # <<>>
          /\ ~is_plate_whitelisted(normalize_plate(step'.plate)) )
        => ( /\ (ptz_state.mode = "panorama" /\ ptz_state.ocr_enabled = 0)
                   => pending_plates' = <<>>
             /\ ( /\ step.op = "handle_mqtt_command"
                  /\ step.key = "shed/cmd/ptz_gate"
                  /\ step.moved = "yes" )
                   => ( /\ Len(pending_plates') = 1
                        /\ pending_plates'[1].plate_norm = normalize_plate(step'.plate) ) )
      ]_vars

-----------------------------------------------------------------------------
(* Properties of the alert loop.                                           *)

\* C15: a pass of the alert loop writes the cooldown time of the alert key
\* and the alert row only if it delivered a notification; it delivers no
\* notification less than ALERT_COOLDOWN_SECONDS after the latest delivered
\* one; it attempts an alert only if it read people_count 0 and the gate not
\* closed.
C15_AlertCooldown ==
    [][ step'.op = "alert_loop"
        => ( /\ (alert_last' # alert_last \/ gate_alert_events' # <<>>)
                   => step'.notified # "none"
             /\ step'.notified # "none"
                   => (delivered.age = NoView \/ delivered.age >= ALERT_COOLDOWN_SECONDS)
             /\ step'.attempted => (people_count = 0 /\ gate_closed = 0) )
      ]_vars

\* A second alert was delivered, with its row and its cooldown time written.
C15_Witness ==
    /\ step.op = "alert_loop"
    /\ step.notified = "photo"
    /\ delivered.n = 2
    /\ alert_last = 0
    /\ Len(gate_alert_events) = 1

\* C16: a pass of the alert loop that attempts an alert and does not deliver
\* the photo, the snapshot missing or the delivery failing, sends a text-only
\* notification instead.
C16_TextFallback ==
    (step.op = "alert_loop" /\ step.attempted /\ step.notified # "photo")
        => step.notified = "text"

-----------------------------------------------------------------------------
(* Properties of TripwireTracker.                                          *)

Repeat(x, n) == [i \in 1..n |-> x]

\* the latest n entries of s
LastN(s, n) == SubSeq(s, Len(s) - n + 1, Len(s))

\* the confirmed side of o, <<>> if o is not tracked
SideOf(sides, o) == IF o \in DOMAIN sides THEN sides[o] ELSE <<>>

\* the call flips the confirmed side of its object
IsFlip ==
    LET o == tw_step'.obj_id
    IN  /\ SideOf(tw_confirmed_side, o) # <<>>
        /\ SideOf(tw_confirmed_side', o) # SideOf(tw_confirmed_side, o)

\* C17: for an object seen for the first time by a tracker of buffer N, N
\* calls above the line and then N calls on or below it return one IN, on the
\* last call, and None on the others; N calls on or below the line and then N
\* above it return one OUT in the same way.
C17_FirstCrossingFires ==
    \A o \in DOMAIN tw_obs :
        /\ tw_obs[o] = Repeat(FALSE, tw_buffer) \o Repeat(TRUE, tw_buffer)
              => tw_results[o] = Repeat("None", 2 * tw_buffer - 1) \o <<"IN">>
        /\ tw_obs[o] = Repeat(TRUE, tw_buffer) \o Repeat(FALSE, tw_buffer)
              => tw_results[o] = Repeat("None", 2 * tw_buffer - 1) \o <<"OUT">>

\* C18: update returns an event only if the latest buffer_frames observations
\* of the object, the current one included, are on one side and a side
\* confirmed before for the object is the other one.
C18_EventOnlyOnConfirmedChange ==
    [][ (tw_step'.op = "update" /\ tw_step'.result # "None")
        => LET o == tw_step'.obj_id
           IN  /\ Len(tw_obs'[o]) >= tw_buffer
               /\ LastN(tw_obs'[o], tw_buffer) = Repeat(tw_step'.below, tw_buffer)
               /\ SideOf(tw_confirmed_side, o) = <<~tw_step'.below>>
      ]_vars

\* update returned an event for a buffer of more than one frame.
C18_Witness ==
    /\ tw_step.op = "update"
    /\ tw_step.result # "None"
    /\ tw_buffer > 1

SinceLastEvent(o) == IF o \in DOMAIN tw_event_age THEN tw_event_age[o] ELSE tw_now

C20_CooldownGate ==
    [][ (tw_step'.op = "update" /\ IsFlip)
        => LET o == tw_step'.obj_id
           IN  tw_step'.result # "None"
                  <=> (o \notin DOMAIN tw_event_age \/ tw_event_age[o] >= cooldown_secs)
      ]_vars

\* C21: an object that fired a direction does not fire the same direction
\* again, within the cooldown window or after it, unless the opposite side
\* was confirmed for it in between, that is buffer_frames observations in a
\* row on the opposite side.
C21_SameDirectionNeedsOpposite ==
    [][ (tw_step'.op = "update" /\ tw_step'.result # "None")
        => LET o == tw_step'.obj_id
           IN  (o \in DOMAIN tw_last_event /\ tw_last_event[o].dir = tw_step'.result)
                  => tw_last_event[o].opp
      ]_vars

\* An object fired IN twice in a row, the side above confirmed in between
\* while the first event was less than cooldown_secs old.
C21_Witness ==
    /\ tw_step.op = "update"
    /\ tw_step.result = "IN"
    /\ tw_buffer > 1
    /\ LET r == tw_results[tw_step.obj_id]
       IN  \E i \in 1..(Len(r) - 1) :
              /\ r[i] = "IN"
              /\ \A j \in (i + 1)..(Len(r) - 1) : r[j] = "None"

\* d2 is d without the keys in gone, the other entries as they were
Without(d, d2, gone) ==
    /\ DOMAIN d2 = DOMAIN d \ gone
    /\ \A o \in DOMAIN d2 : d2[o] = d[o]

\* C22: cleanup_stale(active_ids) removes the positions, the confirmed side,
\* the last fire and the last seen time of the objects that are not in
\* active_ids, if a set is given, or were last seen more than stale_secs ago,
\* and of no other object; the state of the other objects is unchanged and
\* active_count() is their number.
C22_CleanupRemovesExactlyStale ==
    [][ tw_step'.op = "cleanup_stale"
        => LET gone == {o \in DOMAIN tw_positions :
                          \/ tw_step'.by_ids /\ o \notin tw_step'.active_ids
                          \/ tw_last_seen[o] > stale_secs}
           IN  /\ Without(tw_positions, tw_positions', gone)
               /\ Without(tw_confirmed_side, tw_confirmed_side', gone)
               /\ Without(tw_last_fire, tw_last_fire', gone)
               /\ Without(tw_last_seen, tw_last_seen', gone)
               /\ active_count' = Cardinality(DOMAIN tw_positions \ gone)
      ]_vars

\* A cleanup by timeout alone removed one object and kept the other, last
\* seen stale_secs ago.
C22_Witness ==
    /\ tw_step.op = "cleanup_stale"
    /\ ~tw_step.by_ids
    /\ tw_step.removed = {1}
    /\ DOMAIN tw_positions = {2}
    /\ tw_last_seen[2] = stale_secs

\* C23: an update call for an object changes the buffer, the confirmed side,
\* the last fire and the last seen time of no other object; and two objects
\* given the same observations, no time passing, get the same results
\* whatever the order of the calls.
C23_ObjectsIndependent ==
    [][ tw_step'.op = "update"
        => /\ \A o \in TwObjs \ {tw_step'.obj_id} :
                /\ (o \in DOMAIN tw_positions) = (o \in DOMAIN tw_positions')
                /\ (o \in DOMAIN tw_confirmed_side) = (o \in DOMAIN tw_confirmed_side')
                /\ (o \in DOMAIN tw_last_fire) = (o \in DOMAIN tw_last_fire')
                /\ (o \in DOMAIN tw_last_seen) = (o \in DOMAIN tw_last_seen')
                /\ o \in DOMAIN tw_positions => tw_positions'[o] = tw_positions[o]
                /\ o \in DOMAIN tw_confirmed_side
                     => tw_confirmed_side'[o] = tw_confirmed_side[o]
                /\ o \in DOMAIN tw_last_fire => tw_last_fire'[o] = tw_last_fire[o]
                /\ o \in DOMAIN tw_last_seen => tw_last_seen'[o] = tw_last_seen[o]
           /\ \A a \in DOMAIN tw_obs', b \in DOMAIN tw_obs' :
                (tw_still' /\ Len(tw_obs'[a]) < ObsCap /\ tw_obs'[a] = tw_obs'[b])
                   => tw_results'[a] = tw_results'[b]
      ]_vars

\* Both objects crossed the line inwards, their calls interleaved, and both
\* got IN.
C23_Witness ==
    /\ tw_step.op = "update"
    /\ tw_still
    /\ DOMAIN tw_obs = TwObjs
    /\ tw_obs[1] = tw_obs[2]
    /\ tw_step.result = "IN"
    /\ Len(tw_obs[1]) < ObsCap
    /\ tw_results[1] = tw_results[2]

-----------------------------------------------------------------------------
(* Properties of the event intake.                                         *)

\* C24: a message whose payload is not JSON, and an event without a track
\* identifier, change no counter, no object track, no person or vehicle
\* session, no exit-leniency session and not the view-mode state.
C24_MalformedInputNoMutation ==
    [][ (step'.op = "invalid_json" \/ (step'.op = "on_mqtt_message" /\ step'.key = NoId))
        => UNCHANGED <<people_count, vehicle_count, object_tracks, person_sessions,
                       vehicle_sessions, vehicle_exit_sessions, ptz_state>>
      ]_vars

\* C25: an event for an existing track without a direction token and without
\* usable geometry fires no crossing and leaves the stored side of the track,
\* its streak and the counters unchanged.
C25_DegenerateGeometryNoMutation ==
    [][ (step'.op = "handle_counting" /\ step'.source = "none"
           /\ step'.key \in TrackKeys /\ object_tracks[step'.key].present
           /\ object_tracks'[step'.key].present)
        => /\ step'.direction = NULL
           /\ object_tracks'[step'.key].last_side = object_tracks[step'.key].last_side
           /\ side_streaks'[step'.key] = side_streaks[step'.key]
           /\ UNCHANGED <<people_count, vehicle_count>>
      ]_vars

-----------------------------------------------------------------------------
(* Properties of the view-mode state.                                      *)

\* C26, as stated: in gate mode OCR is enabled and no heartbeat time is set.
C26_GateImpliesOcrOnNoHeartbeat ==
    ptz_state.mode = "gate"
        => (ptz_state.ocr_enabled = 1 /\ ptz_state.last_view = NoView)

\* C26, amended: in gate mode OCR is enabled, or a heartbeat time is set and
\* the countdown to enabling it again runs.
C26_GateOcrOffHasHeartbeat ==
    ptz_state.mode = "gate"
        => (ptz_state.ocr_enabled = 1 \/ ptz_state.last_view # NoView)

\* Gate mode with OCR just disabled by a motion event and the heartbeat time
\* set.
C26_Witness ==
    /\ ptz_state.mode = "gate"
    /\ ptz_state.ocr_enabled = 0
    /\ ptz_state.last_view # NoView
    /\ Len(ptz_events) = 1
    /\ ptz_events[1].action = "auto_disable_ocr"

-----------------------------------------------------------------------------
(* Properties of counted exits.                                            *)

\* C27: a counted OUT of a vehicle takes 1 off vehicle_count and 1 off
\* people_count, neither below 0, whatever leniency sessions there are,
\* writes the rows vehicle_out for the vehicle and driver_exit_assumed_right
\* for the person, and adds one vehicle_exit_sessions row, active, with no
\* decrement used and LEFT_EXIT_MAX_EXTRA_PEOPLE allowed.
C27_VehicleOutEffects ==
    [][ ( /\ step'.op = "handle_counting"
          /\ step'.counted = "out"
          /\ LabelOf(step'.key) = "car" )
        => LET old == OpenRows(vehicle_exit_sessions)
               new == vehicle_exit_sessions'
           IN  /\ vehicle_count' = (IF vehicle_count > 0 THEN vehicle_count - 1 ELSE 0)
               /\ people_count' = (IF people_count > 0 THEN people_count - 1 ELSE 0)
               /\ Len(counter_events') = 2
               /\ counter_events'[1].note = "vehicle_out"
               /\ counter_events'[1].label = "car"
               /\ counter_events'[1].new_count = vehicle_count'
               /\ counter_events'[2].note = "driver_exit_assumed_right"
               /\ counter_events'[2].label = "person"
               /\ counter_events'[2].new_count = people_count'
               /\ Len(new) = Len(old) + 1
               /\ new[Len(new)] = [active |-> 1, age |-> 0, left_person_decrements |-> 0,
                                   max_left_person_decrements |-> LEFT_EXIT_MAX_EXTRA_PEOPLE]
               /\ \A i \in 1..Len(old) :
                     /\ new[i].age = old[i].age
                     /\ new[i].left_person_decrements = old[i].left_person_decrements
                     /\ new[i].max_left_person_decrements = old[i].max_left_person_decrements
      ]_vars

\* A vehicle was counted out while a leniency session with a decrement used
\* was active, and people_count went down by 1.
C27_Witness ==
    /\ step.op = "handle_counting"
    /\ step.counted = "out"
    /\ LabelOf(step.key) = "car"
    /\ Len(vehicle_exit_sessions) >= 2
    /\ vehicle_exit_sessions[1].active = 1
    /\ vehicle_exit_sessions[1].left_person_decrements > 0
    /\ counter_events[2].new_count >= 1

\* the counted flag of the row that handle_counting finds for k: rows not
\* seen for more than TRACK_TTL_SECONDS are deleted first
CountedFlag(k, direction) ==
    IF ~object_tracks[k].present \/ object_tracks[k].age > TRACK_TTL_SECONDS THEN 0
    ELSE IF direction = "in" THEN object_tracks[k].counted_in
    ELSE object_tracks[k].counted_out

\* C28: an event with the direction token "in" or "out", at the top level or
\* under after, gets that direction whatever its box, the stored side and the
\* streak of its track are, the streak stays as it is, and the direction is
\* counted at once if the track's flag for it is unset.
C28_TokenTrusted ==
    [][ ( /\ step'.op = "handle_counting"
          /\ step'.key \in TrackKeys
          /\ (step'.token \in {"in", "out"} \/ step'.after_token \in {"in", "out"}) )
        => LET k == step'.key
               tok == IF step'.token \in {"in", "out"} THEN step'.token ELSE step'.after_token
               person == LabelOf(k) = "person"
           IN  /\ step'.direction = tok
               /\ step'.source = "frigate"
               /\ side_streaks'[k] = side_streaks[k]
               /\ IF CountedFlag(k, tok) = 0
                  THEN /\ step'.counted = tok
                       /\ tok = "in" /\ person => people_count' = people_count + 1
                       /\ tok = "in" /\ ~person => vehicle_count' = vehicle_count + 1
                       /\ tok = "out" /\ people_count > 0 => people_count' = people_count - 1
                       /\ tok = "out" /\ ~person /\ vehicle_count > 0
                             => vehicle_count' = vehicle_count - 1
                  ELSE /\ step'.counted = NULL
                       /\ UNCHANGED <<people_count, vehicle_count>>
      ]_vars

\* A token under after, in an event with a box on the outside, was counted
\* as IN for a track whose streak was one observation outside.
C28_Witness ==
    /\ step.op = "handle_counting"
    /\ step.key \in TrackKeys
    /\ step.token = NULL
    /\ step.after_token = "in"
    /\ step.counted = "in"
    /\ side_streaks[step.key] = [side |-> "left", n |-> 1]

-----------------------------------------------------------------------------
(* Properties of the exit-leniency pool.                                   *)

\* the sessions that were active before the step and are not after it
Deactivated(T, S2) == {i \in DOMAIN T : S2[i].active = 0}

\* C29: when handle_counting finds more than MAX_ACTIVE_VEHICLE_EXIT_SESSIONS
\* sessions active and inside the window, the limit enforcement deactivates
\* those started first and keeps the MAX_ACTIVE_VEHICLE_EXIT_SESSIONS started
\* last; it deactivates no other session; and a session is created only
\* after every active session older than LEFT_EXIT_WINDOW_SECONDS has been
\* expired.
C29_OldestEvictedFirst ==
    [][ step'.op = "handle_counting"
        => LET T == OpenRows(vehicle_exit_sessions)
               S2 == vehicle_exit_sessions'
               old == {i \in DOMAIN T : T[i].age > LEFT_EXIT_WINDOW_SECONDS}
               alive == DOMAIN T \ old
               excess == Cardinality(alive) - MAX_ACTIVE_VEHICLE_EXIT_SESSIONS
               first == {i \in alive : Cardinality({j \in alive : j < i}) < excess}
               person_out == step'.counted = "out" /\ LabelOf(step'.key) = "person"
           IN  /\ Len(S2) >= Len(T)
               /\ old \subseteq Deactivated(T, S2)
               /\ first \subseteq Deactivated(T, S2)
               /\ Deactivated(T, S2) \ (old \cup first)
                     \subseteq (IF person_out THEN {Len(T)} ELSE {})
               /\ Len(S2) > Len(T) => \A i \in alive \ first : S2[i].active = 1
      ]_vars

\* The limit enforcement closed the session started first, inside its window
\* and with allowance left, and kept the two started after it.
C29_Witness ==
    /\ step.op = "handle_counting"
    /\ Len(vehicle_exit_sessions) >= 3
    /\ vehicle_exit_sessions[1].active = 0
    /\ vehicle_exit_sessions[1].age <= LEFT_EXIT_WINDOW_SECONDS
    /\ vehicle_exit_sessions[2].active = 1
    /\ vehicle_exit_sessions[3].active = 1

\* C30: a counted person OUT is explained only by the active session started
\* last, and only if that session started at most LEFT_EXIT_WINDOW_SECONDS
\* ago; if its window is over or its allowance is used up the exit is plain
\* and that session is deactivated; if no session is active the exit is plain
\* and no session changes.
C30_OnlyNewestSessionTried ==
    [][ ( /\ step'.op = "handle_counting"
          /\ step'.counted = "out"
          /\ LabelOf(step'.key) = "person" )
        => LET T == OpenRows(vehicle_exit_sessions)
               S2 == vehicle_exit_sessions'
               n == Len(T)
               others == {i \in DOMAIN T : i < n}
           IN  /\ Len(S2) = n
               /\ \A i \in others :
                     S2[i].left_person_decrements = T[i].left_person_decrements
               /\ step'.applied_left
                     => /\ n > 0
                        /\ T[n].age <= LEFT_EXIT_WINDOW_SECONDS
                        /\ S2[n].left_person_decrements = T[n].left_person_decrements + 1
               /\ ( /\ n > 0
                    /\ \/ T[n].age > LEFT_EXIT_WINDOW_SECONDS
                       \/ T[n].left_person_decrements >= T[n].max_left_person_decrements )
                     => /\ ~step'.applied_left
                        /\ S2[n].active = 0
                        /\ S2[n].left_person_decrements = T[n].left_person_decrements
                        /\ counter_events'[Len(counter_events')].note = "person_out"
               /\ n = 0 => (~step'.applied_left /\ S2 = <<>>)
      ]_vars

\* A person OUT found the newest session used up, inside its window, was
\* counted as plain and left that session deactivated, an older session with
\* allowance left still active.
C30_Witness ==
    /\ step.op = "handle_counting"
    /\ step.counted = "out"
    /\ LabelOf(step.key) = "person"
    /\ ~step.applied_left
    /\ Len(vehicle_exit_sessions) = 2
    /\ vehicle_exit_sessions[2].active = 0
    /\ vehicle_exit_sessions[2].age <= LEFT_EXIT_WINDOW_SECONDS
    /\ vehicle_exit_sessions[2].left_person_decrements
          >= vehicle_exit_sessions[2].max_left_person_decrements
    /\ vehicle_exit_sessions[1].active = 1
    /\ vehicle_exit_sessions[1].left_person_decrements = 0

\* history: update returned the same event for object o at its calls i and j
\* and None at every call between them
SameEventTwice(o, i, j) ==
    LET r == tw_results[o]
    IN  /\ i < j
        /\ r[i] # "None"
        /\ r[j] = r[i]
        /\ \A k \in (i + 1)..(j - 1) : r[k] = "None"

\* C39 as stated: between cleanups the events that update returns for an
\* object alternate, IN never following IN and OUT never following OUT.
C39_StrictAlternation ==
    \A o \in DOMAIN tw_results :
        \A i, j \in DOMAIN tw_results[o] : ~SameEventTwice(o, i, j)

\* C39, amended: between cleanups, when update returns the same event twice
\* for an object with no event in between, the opposite side was confirmed
\* in between, buffer_frames observations in a row on that side; the event
\* of that confirmation is the one the cooldown held back.
C39_AlternationOfConfirmedSides ==
    \A o \in DOMAIN tw_results :
        \A i, j \in DOMAIN tw_results[o] :
            SameEventTwice(o, i, j)
                => \E k \in (i + 1)..(j - 1) :
                      \A m \in (k - tw_buffer + 1)..k :
                          /\ m > i
                          /\ tw_obs[o][m] = (tw_results[o][i] = "OUT")

\* OUT was returned twice for an object, below confirmed in between over
\* more than one observation while the first OUT was less than
\* cooldown_secs old.
C39_Witness ==
    /\ tw_step.op = "update"
    /\ tw_step.result = "OUT"
    /\ tw_buffer > 1
    /\ LET o == tw_step.obj_id
       IN  \E i \in DOMAIN tw_results[o] : SameEventTwice(o, i, Len(tw_results[o]))

\* C40: every vehicle_exit_sessions row has left_person_decrements between 0
\* and max_left_person_decrements; a step changes left_person_decrements
\* only by adding 1, only in an explained person exit, on one row, and that
\* row is active.
C40_DecrementsBounded ==
    [][ vehicle_exit_sessions' # vehicle_exit_sessions
        => LET T == OpenRows(vehicle_exit_sessions)
               S2 == vehicle_exit_sessions'
               explained == step'.op = "handle_counting" /\ step'.applied_left
               raised == {i \in DOMAIN T :
                            S2[i].left_person_decrements # T[i].left_person_decrements}
           IN  /\ Len(S2) >= Len(T)
               /\ \A i \in DOMAIN S2 :
                     /\ S2[i].left_person_decrements >= 0
                     /\ S2[i].left_person_decrements <= S2[i].max_left_person_decrements
               /\ \A i \in raised :
                     /\ S2[i].left_person_decrements = T[i].left_person_decrements + 1
                     /\ S2[i].active = 1
                     /\ explained
               /\ explained => Cardinality(raised) = 1
      ]_vars

\* An explained person exit took the last decrement a session allows.
C40_Witness ==
    /\ step.op = "handle_counting"
    /\ step.applied_left
    /\ \E i \in DOMAIN vehicle_exit_sessions :
          /\ vehicle_exit_sessions[i].active = 1
          /\ vehicle_exit_sessions[i].left_person_decrements
                = vehicle_exit_sessions[i].max_left_person_decrements
          /\ vehicle_exit_sessions[i].left_person_decrements > 0

-----------------------------------------------------------------------------
(* Properties of the countdown and of the idle loop.                       *)

\* C31: the countdown is between 0 and PTZ_AUTO_RETURN_SECONDS; in wide-view
\* with a heartbeat time it and the whole seconds since that heartbeat add up
\* to the timeout, or it is 0 once they exceed it; right after a heartbeat in
\* wide-view it is the full timeout; in the operational mode it is 0.
C31_CountdownValue ==
    LET c == get_ptz_countdown_seconds(ptz_state)
        elapsed == ptz_state.last_view
    IN  /\ c \in 0..PTZ_AUTO_RETURN_SECONDS
        /\ (ptz_state.mode = "panorama" /\ elapsed # NoView)
              => IF elapsed <= PTZ_AUTO_RETURN_SECONDS
                 THEN c + elapsed = PTZ_AUTO_RETURN_SECONDS
                 ELSE c = 0
        /\ ( /\ step.op = "handle_mqtt_command"
             /\ step.key = "shed/cmd/view_heartbeat"
             /\ ptz_state.mode = "panorama" )
              => c = PTZ_AUTO_RETURN_SECONDS
        /\ ptz_state.mode = "gate" => c = 0

\* Wide-view, part of the timeout gone since the heartbeat.
C31_Witness ==
    /\ ptz_state.mode = "panorama"
    /\ ptz_state.last_view > 0
    /\ ptz_state.last_view < PTZ_AUTO_RETURN_SECONDS
    /\ get_ptz_countdown_seconds(ptz_state) = PTZ_AUTO_RETURN_SECONDS - ptz_state.last_view
    /\ step.op = "tick"
    /\ heartbeat = ptz_state.last_view

\* C32: when the idle loop has found the wide-view timeout over and the move
\* to the gate preset fails, then after that pass the mode is panorama and
\* ocr_enabled is 1, an auto_enable_ocr event is logged if the loop found OCR
\* disabled, and no auto_return event is logged.
C32_FailedAutoReturnEnablesOcr ==
    [][ ( /\ loop.pc = "move"
          /\ step'.op = "auto_return_loop"
          /\ step'.key = "move"
          /\ step'.moved = "no" )
        => ( /\ ptz_state'.mode = "panorama"
             /\ ptz_state'.ocr_enabled = 1
             /\ loop.ocr_enabled = 0
                   => /\ Len(ptz_events') = 1
                      /\ ptz_events'[1].action = "auto_enable_ocr"
             /\ \A i \in DOMAIN ptz_events' : ptz_events'[i].action # "auto_return" )
      ]_vars

\* C33: after a pass of the idle loop whose move to the gate preset failed
\* and left the mode panorama, the loop comes to attempt the move again,
\* unless a command, a heartbeat or an event arrives first.
C33_FailedAutoReturnRetried ==
    ( /\ step.op = "auto_return_loop"
      /\ step.key = "move"
      /\ step.moved = "no"
      /\ ptz_state.mode = "panorama" )
    ~> ( \/ loop.pc = "move"
         \/ step.op \in {"handle_mqtt_command", "on_mqtt_message", "handle_counting"} )

C35_NoLostUpdate ==
    [][ ( /\ step'.op = "auto_return_loop"
          /\ step'.key \in {"move", "enable"}
          /\ ptz_events' # <<>> )
        => ( /\ ptz_state.mode = loop.mode
             /\ loop.pc = "move"
                   => /\ ptz_state.last_view # NoView
                      /\ ptz_state.last_view >= PTZ_AUTO_RETURN_SECONDS )
      ]_vars

-----------------------------------------------------------------------------
(* Properties of the counters under a failing store.                       *)

\* C36: a counting event during which the read of counters_state fails
\* leaves the committed people_count and vehicle_count as they were.
C36_FailedReadKeepsCounters ==
    [][ (step'.op = "handle_counting" /\ ~step'.read_ok)
        => (people_count' = people_count /\ vehicle_count' = vehicle_count)
      ]_vars

\* C38: every counter_events row that handle_counting writes has new_count
\* equal to the counter of its label before the event plus its delta, and the
\* last row of the event has new_count equal to that counter after the event.
C38_AuditMatchesCounters ==
    [][ step'.op = "handle_counting"
        => \A i \in DOMAIN counter_events' :
              LET row == counter_events'[i]
                  before == IF row.label = "person" THEN people_count ELSE vehicle_count
                  after == IF row.label = "person" THEN people_count' ELSE vehicle_count'
              IN  /\ row.new_count = before + row.delta
                  /\ i = Len(counter_events') => row.new_count = after
      ]_vars

-----------------------------------------------------------------------------
(* Properties of the door relay.                                           *)

\* C37: a door command whose relay actuation fails leaves door_state as it
\* was and publishes no other door state than that one.
C37_FailedRelayKeepsDoorState ==
    [][ (step'.op = "control_door" /\ step'.moved = "no")
        => ( /\ door_state' = door_state
             /\ door_published' \in {door_published, door_state} )
      ]_vars

====
